---- MODULE Spec2Model ----
(***************************************************************************)
(* Verification model of the BoxChooser backend: the Excel import          *)
(* matching of backend/lib/excel_import.py, the YAML store repository of   *)
(* backend/lib/yaml_helpers.py and the store endpoints of backend/routers. *)
(*                                                                         *)
(* Text is modelled as a sequence of one-character strings, so that the    *)
(* substring tests, the dimension regex and the YAML scalar scanner work   *)
(* on characters exactly as the Python code does.                          *)
(***************************************************************************)
EXTENDS Integers, Sequences, FiniteSets, TLC

VARIABLES
    product_name,   \* categorize_product: the argument
    category,       \* categorize_product: the returned category
    rows_data,      \* analyze_import_for_matching: rows read from the sheet
    store_data,     \* analyze_import_for_matching: store_data['boxes']
    analysis,       \* analyze_import_for_matching: the returned dict
    box_data,       \* validate_box_data: the argument (mutated in place)
    validation,     \* validate_box_data: returned normally, or the ValueError
    yaml_store_id,  \* save_store_yaml: store_id
    yaml_data,      \* save_store_yaml: data['boxes']
    yaml_file,      \* stores/store{store_id}.yml
    yaml_loaded,    \* load_store_yaml: the returned store data
    stores,         \* stores/store{store_id}.yml of each store
    sessions,       \* table sessions: token -> store_id, auth_level
    email_codes,    \* table email_codes: the unused codes
    response,       \* the status of the last response, and for a served
                    \* store request the session's store and the path's
    upload,         \* the UploadFile of the last upload request
    upload_result,  \* what the upload operation answered
    discovery,      \* discover_boxes_from_prices: the returned dict
    library_file,   \* boxes/library.yml
    clock,          \* CURRENT_TIMESTAMP, in hours
    utc_offset,     \* the server's local time minus UTC, in hours
    session_rows,   \* the sessions table with expires_at, by token
    issued,         \* the create_session calls so far, by token
    logged_out,     \* the tokens delete_session has removed
    store_status,   \* store_auth.status of each store
    password_verified, \* the accounts whose password superadmin_login accepted
    auth_result,    \* the answer to the request of this hour
    _library_instance, \* box_library._library_instance
    _library_lock,  \* box_library._library_lock: the thread holding it, or 0
    pc,             \* the statement each thread is at
    call,           \* the call each thread made last
    returned,       \* what that call returned
    constructed,    \* the BoxLibrary() constructions so far
    reloads,        \* the reload_box_library calls so far
    reloaded,       \* the instance the last returned reload constructed
    box_name,       \* get_dimensions_from_name: the argument
    extracted,      \* get_dimensions_from_name: the returned tuple, or None
    rate_limit_attempts, \* table rate_limit_attempts: the rows of one address and endpoint
    rate_now,       \* datetime('now'), in seconds
    rate_passed,    \* the calls that passed check_rate_limit_with_dedup, by time
    slowapi_hits,   \* the slowapi counter of the address for login
    rate_status,    \* the status of the last rate limited call
    import_pc,      \* import_prices: where the handler is
    import_data,    \* import_prices: data, from load_store_yaml
    import_file,    \* import_prices: file
    overlapped,     \* the changes saved by other requests while import_prices waited
    code_rows,      \* table email_codes
    code_now,       \* CURRENT_TIMESTAMP, in minutes
    code_offset,    \* the local time of the server minus UTC, in minutes
    accepted,       \* the codes verify_code accepted: row and time
    code_result,    \* the answer to the last send-code or verify-code request
    price_request,  \* the last price-writing request: the operation, whether it passed the gates, its changes and the models of the store it met
    floorplan_files, \* the names of the files in floorplans/
    floor_request,  \* the last request at the floorplan endpoints, and the floorplans of its store before it
    demo_store,     \* stores/store999999.yml
    demo_rules,     \* the rows of store_packing_rules of store 999999
    demo_sessions,  \* the auth levels of the sessions of store 999999
    demo_now,       \* the time, in minutes
    demo_reset_at,  \* the time of the last reset of the demo store
    demo_changes,   \* the changes made through the store API since the last reset
    demo_result     \* the answer to the last request of the demo store

catVars == <<product_name, category>>
importVars == <<rows_data, store_data, analysis>>
validateVars == <<box_data, validation>>
yamlVars == <<yaml_store_id, yaml_data, yaml_file, yaml_loaded>>

storeVars == <<stores, sessions, email_codes, response>>

uploadVars == <<upload, upload_result, discovery>>
libraryVars == <<library_file>>

\* the parts added to the model after the store endpoints
authVars == <<clock, utc_offset, session_rows, issued, logged_out, store_status,
              password_verified, auth_result>>
singletonVars == <<_library_instance, _library_lock, pc, call, returned,
                   constructed, reloads, reloaded>>
dimVars == <<box_name, extracted>>
rateVars == <<rate_limit_attempts, rate_now, rate_passed, slowapi_hits, rate_status>>

overlapVars == <<import_pc, import_data, import_file, overlapped>>

codeVars == <<code_rows, code_now, code_offset, accepted, code_result>>

priceVars == <<price_request>>

floorVars == <<floorplan_files, floor_request>>

demoVars == <<demo_store, demo_rules, demo_sessions, demo_now, demo_reset_at, demo_changes, demo_result>>

\* the parts added last
lateVars == <<rateVars, overlapVars, codeVars, priceVars, floorVars, demoVars>>
moreVars == <<uploadVars, libraryVars, authVars, singletonVars, dimVars, lateVars>>

vars == <<catVars, importVars, validateVars, yamlVars, storeVars, moreVars>>

\* ------------------------------------------------------------------------
\* Bounds
\* ------------------------------------------------------------------------
MaxWords == 3        \* words joined into one product name
MaxExtraRows == 1    \* rows appended to the window of the base sheet
MaxBoxes == 2        \* boxes in the store list handed to the analysis
MaxModelLen == 2     \* characters of a requested box model
MaxYamlBoxes == 2    \* boxes in the list written to a store file
MaxSessions == 1     \* rows of the sessions table
MaxStoreBoxes == 2   \* boxes of all stores of the API together
MaxBatch == 2        \* requests of one create_boxes_batch call
MaxSheetRows == 3    \* rows of a sheet handed to the box discovery
MaxIssued == 2       \* create_session calls
MaxClock == 4        \* hours that pass
MaxThreads == 2      \* threads calling the box library
MaxReloads == 2      \* reload_box_library calls
MaxEdits == 1        \* edits of boxes/library.yml
MaxNameLen == 7      \* characters of a box name
MaxMinutes == 1      \* minutes that pass at the rate limiter
MaxAttempts == 21    \* calls that pass the rate limiter
MaxCodes == 2        \* email codes created
MaxCodeTicks == 2    \* five-minute steps at the email codes
MaxDemoTicks == 3    \* half-hour steps at the demo store
MaxDemoBoxes == 2    \* boxes in the demo store

\* ------------------------------------------------------------------------
\* Characters and text helpers
\* ------------------------------------------------------------------------
Pending == "pending" \* no call has returned yet

UpperChars == <<"A","B","C","D","E","F","G","H","I","J","K","L","M",
                "N","O","P","Q","R","S","T","U","V","W","X","Y","Z">>
LowerChars == <<"a","b","c","d","e","f","g","h","i","j","k","l","m",
                "n","o","p","q","r","s","t","u","v","w","x","y","z">>
Digits == <<"0","1","2","3","4","5","6","7","8","9">>

IsDigit(c) == \E i \in 1..10 : Digits[i] = c
DigitVal(c) == (CHOOSE i \in 1..10 : Digits[i] = c) - 1

\* str.lower() on one character
LowerChar(c) ==
    IF \E i \in 1..26 : UpperChars[i] = c
    THEN LowerChars[CHOOSE i \in 1..26 : UpperChars[i] = c]
    ELSE c

\* str.lower()
Lower(s) == [i \in 1..Len(s) |-> LowerChar(s[i])]

\* `sub in s`
Contains(s, sub) ==
    \E i \in 0..(Len(s) - Len(sub)) : SubSeq(s, i + 1, i + Len(sub)) = sub

\* ------------------------------------------------------------------------
\* The dimension regex
\*   (\d+(?:\.\d+)?)\s*[xX]\s*(\d+(?:\.\d+)?)\s*[xX]\s*(\d+(?:\.\d+)?)
\* Positions are 1-based; an end position is the index after the last
\* matched character.  A value of 0 means "no match".
\* ------------------------------------------------------------------------
RECURSIVE SkipDigits(_, _)
SkipDigits(s, i) ==
    IF i <= Len(s) /\ IsDigit(s[i]) THEN SkipDigits(s, i + 1) ELSE i

RECURSIVE SkipSpaces(_, _)
SkipSpaces(s, i) ==
    IF i <= Len(s) /\ s[i] = " " THEN SkipSpaces(s, i + 1) ELSE i

\* \d+(?:\.\d+)? matched greedily at i: the end position, or 0
NumberEnd(s, i) ==
    IF ~(i <= Len(s) /\ IsDigit(s[i])) THEN 0
    ELSE LET d == SkipDigits(s, i)
         IN IF d + 1 <= Len(s) /\ s[d] = "." /\ IsDigit(s[d + 1])
            THEN SkipDigits(s, d + 1)
            ELSE d

\* \s*[xX]\s* matched at i: the end position, or 0
SeparatorEnd(s, i) ==
    LET p == SkipSpaces(s, i)
    IN IF p <= Len(s) /\ (s[p] = "x" \/ s[p] = "X")
       THEN SkipSpaces(s, p + 1)
       ELSE 0

NoMatch == [start |-> 0, groups |-> <<>>, end |-> 0]

\* re.match of the pattern anchored at position i, one step per pattern
\* element: e1, e2, e3 end the three numbers, b2 and b3 begin the second
\* and the third
MatchObject(s, i, e1, b2, e2, b3, e3) ==
    IF e3 = 0 THEN NoMatch
    ELSE [start |-> i,
          groups |-> <<SubSeq(s, i, e1 - 1), SubSeq(s, b2, e2 - 1),
                       SubSeq(s, b3, e3 - 1)>>,
          end |-> e3]

ThirdNumber(s, i, e1, b2, e2, b3) ==
    MatchObject(s, i, e1, b2, e2, b3, IF b3 = 0 THEN 0 ELSE NumberEnd(s, b3))

SecondSeparator(s, i, e1, b2, e2) ==
    ThirdNumber(s, i, e1, b2, e2, IF e2 = 0 THEN 0 ELSE SeparatorEnd(s, e2))

SecondNumber(s, i, e1, b2) ==
    SecondSeparator(s, i, e1, b2, IF b2 = 0 THEN 0 ELSE NumberEnd(s, b2))

FirstSeparator(s, i, e1) ==
    SecondNumber(s, i, e1, IF e1 = 0 THEN 0 ELSE SeparatorEnd(s, e1))

DimMatchAt(s, i) == FirstSeparator(s, i, NumberEnd(s, i))

\* the match at the leftmost of the given start positions
FirstMatch(s, starts) ==
    IF starts = {} THEN NoMatch
    ELSE DimMatchAt(s, CHOOSE i \in starts : \A j \in starts : i <= j)

\* a search that returns the match at the rightmost position that has one
DimSearch_Rightmost(s) ==
    LET starts == {i \in 1..Len(s) : DimMatchAt(s, i) # NoMatch}
    IN IF starts = {} THEN NoMatch
       ELSE DimMatchAt(s, CHOOSE i \in starts : \A j \in starts : i >= j)

\* re.search: the match at the leftmost position that has one
DimSearch(s) == FirstMatch(s, {i \in 1..Len(s) : DimMatchAt(s, i) # NoMatch})

\* ------------------------------------------------------------------------
\* categorize_product
\* ------------------------------------------------------------------------
S_pack_service == <<"p","a","c","k"," ","s","e","r","v","i","c","e">>
S_pack_svc == <<"p","a","c","k"," ","s","v","c">>
S_pack_material == <<"p","a","c","k"," ","m","a","t","e","r","i","a","l">>
S_pack_mat == <<"p","a","c","k"," ","m","a","t">>
S_basic == <<"b","a","s","i","c">>
S_std == <<"s","t","d">>
S_standard == <<"s","t","a","n","d","a","r","d">>
S_frg == <<"f","r","g">>
S_fragile == <<"f","r","a","g","i","l","e">>
S_cust == <<"c","u","s","t">>
S_custom == <<"c","u","s","t","o","m">>
S_box == <<"b","o","x">>

\* TierOf with the custom keywords tested before the fragile ones
TierOf_CustomFirst(name_lower) ==
    IF Contains(name_lower, S_basic) THEN "basic"
    ELSE IF Contains(name_lower, S_std) \/ Contains(name_lower, S_standard)
         THEN "standard"
    ELSE IF Contains(name_lower, S_cust) \/ Contains(name_lower, S_custom)
         THEN "custom"
    ELSE IF Contains(name_lower, S_frg) \/ Contains(name_lower, S_fragile)
         THEN "fragile"
    ELSE "none"

\* The tier chosen inside the service and the materials branches: the
\* first of basic, standard, fragile, custom whose keyword occurs.
TierOf(name_lower) ==
    IF Contains(name_lower, S_basic) THEN "basic"
    ELSE IF Contains(name_lower, S_std) \/ Contains(name_lower, S_standard)
         THEN "standard"
    ELSE IF Contains(name_lower, S_frg) \/ Contains(name_lower, S_fragile)
         THEN "fragile"
    ELSE IF Contains(name_lower, S_cust) \/ Contains(name_lower, S_custom)
         THEN "custom"
    ELSE "none"

\* categorize_product recognising only the full spellings 'pack service'
\* and 'pack material'
categorize_product_NoAbbreviation(name) ==
    LET name_lower == Lower(name)
        tier == TierOf(name_lower)
    IN IF Contains(name_lower, S_pack_service)
       THEN CASE tier = "basic" -> "basic_service"
              [] tier = "standard" -> "standard_service"
              [] tier = "fragile" -> "fragile_service"
              [] tier = "custom" -> "custom_service"
              [] OTHER -> "other"
       ELSE IF Contains(name_lower, S_pack_material)
       THEN CASE tier = "basic" -> "basic_materials"
              [] tier = "standard" -> "standard_materials"
              [] tier = "fragile" -> "fragile_materials"
              [] tier = "custom" -> "custom_materials"
              [] OTHER -> "other"
       ELSE IF DimSearch(name) # NoMatch THEN "box"
       ELSE IF Contains(name_lower, S_box) THEN "box"
       ELSE "other"

categorize_product(name) ==
    LET name_lower == Lower(name)
        tier == TierOf(name_lower)
    IN IF Contains(name_lower, S_pack_service) \/ Contains(name_lower, S_pack_svc)
       THEN CASE tier = "basic" -> "basic_service"
              [] tier = "standard" -> "standard_service"
              [] tier = "fragile" -> "fragile_service"
              [] tier = "custom" -> "custom_service"
              [] OTHER -> "other"
       ELSE IF Contains(name_lower, S_pack_material) \/ Contains(name_lower, S_pack_mat)
       THEN CASE tier = "basic" -> "basic_materials"
              [] tier = "standard" -> "standard_materials"
              [] tier = "fragile" -> "fragile_materials"
              [] tier = "custom" -> "custom_materials"
              [] OTHER -> "other"
       ELSE IF DimSearch(name) # NoMatch THEN "box"
       ELSE IF Contains(name_lower, S_box) THEN "box"
       ELSE "other"

\* ------------------------------------------------------------------------
\* Product names the categorisation is exercised on: up to MaxWords words
\* joined by single spaces.
\* ------------------------------------------------------------------------
W_dims == <<"1","0","x","1","0","x","1","0">>
W_PackSvc == <<"P","a","c","k"," ","S","v","c">>
W_PackMat == <<"P","a","c","k"," ","M","a","t">>
W_Fragile == <<"F","r","a","g","i","l","e">>
W_Basic == <<"B","a","s","i","c">>
W_Std == <<"S","t","d">>
W_Cust == <<"C","u","s","t">>
W_Box == <<"B","o","x">>
W_Insert == <<"I","n","s","e","r","t">>

Words == {W_dims, W_PackSvc, W_PackMat, W_Fragile, W_Basic, W_Std, W_Cust,
          W_Box, W_Insert}

RECURSIVE JoinWords(_)
JoinWords(ws) ==
    IF Len(ws) = 0 THEN <<>>
    ELSE IF Len(ws) = 1 THEN ws[1]
    ELSE ws[1] \o <<" ">> \o JoinWords(Tail(ws))

ProductNames ==
    {JoinWords(ws) : ws \in UNION {[1..n -> Words] : n \in 1..MaxWords}}

\* ------------------------------------------------------------------------
\* Python values.  A number is m * 10^e (e <= 0 for the decimals met here);
\* t tells an int from a float, a str carries its text in s.
\* ------------------------------------------------------------------------
PyInt(n) == [t |-> "int", m |-> n, e |-> 0, s |-> <<>>]
PyFloat(mant, ex) == [t |-> "float", m |-> mant, e |-> ex, s |-> <<>>]
PyText(txt) == [t |-> "str", m |-> 0, e |-> 0, s |-> txt]
PyNone == [t |-> "none", m |-> 0, e |-> 0, s |-> <<>>]

IsNumber(v) == v.t \in {"int", "float"}

RECURSIVE Pow10(_)
Pow10(n) == IF n <= 0 THEN 1 ELSE 10 * Pow10(n - 1)

RECURSIVE FormatNat(_)
FormatNat(n) ==
    IF n < 10 THEN <<Digits[n + 1]>>
    ELSE FormatNat(n \div 10) \o <<Digits[(n % 10) + 1]>>

RECURSIVE ParseNat(_)
ParseNat(s) ==
    IF Len(s) = 0 THEN 0
    ELSE 10 * ParseNat(SubSeq(s, 1, Len(s) - 1)) + DigitVal(s[Len(s)])

RECURSIVE Zeros(_)
Zeros(n) == IF n <= 0 THEN <<>> ELSE <<"0">> \o Zeros(n - 1)

\* the mantissa without trailing zeros, the exponent raised to match
RECURSIVE Normalize(_, _)
Normalize(mant, ex) ==
    IF mant = 0 THEN <<0, 0>>
    ELSE IF mant % 10 = 0 THEN Normalize(mant \div 10, ex + 1)
    ELSE <<mant, ex>>

\* numeric equality (10 == 10.0)
NumEq(a, b) == Normalize(a.m, a.e) = Normalize(b.m, b.e)

\* int(x) of a non-negative number: truncation
Trunc(v) ==
    IF v.e >= 0 THEN v.m * Pow10(v.e) ELSE v.m \div Pow10(-v.e)

\* float(text) of a matched \d+(?:\.\d+)? token
FloatOfToken(tok) ==
    LET dots == {i \in 1..Len(tok) : tok[i] = "."}
    IN IF dots = {} THEN PyFloat(ParseNat(tok), 0)
       ELSE LET d == CHOOSE i \in dots : TRUE
            IN PyFloat(ParseNat(SubSeq(tok, 1, d - 1) \o SubSeq(tok, d + 1, Len(tok))),
                       -(Len(tok) - d))

\* repr(float): fixed notation while the decimal exponent is in -4..15,
\* scientific notation otherwise ('1e-05', '2.5e-05').  ds are the
\* significant digits, k their number, ex the power of ten of the last
\* one and x the power of ten of the first one.
FormatRepr(ds, k, ex, x) ==
    IF x >= -4 /\ x < 16
    THEN IF ex >= 0 THEN ds \o Zeros(ex) \o <<".", "0">>
         ELSE IF k + ex > 0
         THEN SubSeq(ds, 1, k + ex) \o <<".">> \o SubSeq(ds, k + ex + 1, k)
         ELSE <<"0", ".">> \o Zeros(-(k + ex)) \o ds
    ELSE <<ds[1]>>
         \o (IF k > 1 THEN <<".">> \o SubSeq(ds, 2, k) ELSE <<>>)
         \o <<"e", IF x < 0 THEN "-" ELSE "+">>
         \o (IF x > -10 /\ x < 10 THEN <<"0">> ELSE <<>>)
         \o FormatNat(IF x < 0 THEN -x ELSE x)

FormatDigits(ds, ex) == FormatRepr(ds, Len(ds), ex, Len(ds) + ex - 1)

FormatNormal(n) ==
    IF n[1] = 0 THEN <<"0", ".", "0">> ELSE FormatDigits(FormatNat(n[1]), n[2])

FormatFloat(v) ==
    IF v.m < 0 THEN <<"-">> \o FormatNormal(Normalize(-v.m, v.e))
    ELSE FormatNormal(Normalize(v.m, v.e))

\* str(value), also the conversion of an f-string field
PyStr(v) ==
    CASE v.t = "int" -> IF v.m < 0 THEN <<"-">> \o FormatNat(-v.m * Pow10(v.e))
                        ELSE FormatNat(v.m * Pow10(v.e))
      [] v.t = "float" -> FormatFloat(v)
      [] v.t = "str" -> v.s
      [] OTHER -> <<"N", "o", "n", "e">>

\* str.strip() for blanks
RECURSIVE LStrip(_)
LStrip(s) == IF Len(s) > 0 /\ s[1] = " " THEN LStrip(Tail(s)) ELSE s
RECURSIVE RStrip(_)
RStrip(s) ==
    IF Len(s) > 0 /\ s[Len(s)] = " " THEN RStrip(SubSeq(s, 1, Len(s) - 1)) ELSE s
Strip(s) == RStrip(LStrip(s))

\* f"{a}x{b}x{c}"
DimString(a, b, c) == a \o <<"x">> \o b \o <<"x">> \o c

\* ------------------------------------------------------------------------
\* The rows the analysis is exercised on
\* ------------------------------------------------------------------------
W_Frg == <<"F","r","g">>
W_dims109 == <<"1","0",".","9","x","1","0","x","1","0">>
W_dims12 == <<"1","2","X","1","2"," ","x"," ","1","2">>
W_box == <<"b","o","x">>
W_Electronics == <<"E","l","e","c","t","r","o","n","i","c","s">>
T_na == <<"n","/","a">>

SheetRow(item, words, price) ==
    [Item |-> item, name |-> JoinWords(words), Price |-> price]

\* a complete price sheet for the 10x10x10 box: all nine categories
BaseSheet ==
    <<SheetRow(PyInt(1), <<W_dims, W_Basic, W_PackSvc>>, PyInt(2)),
      SheetRow(PyInt(2), <<W_dims, W_Box>>, PyInt(5)),
      SheetRow(PyInt(3), <<W_dims, W_Basic, W_PackMat>>, PyFloat(15, -1)),
      SheetRow(PyInt(4), <<W_dims, W_Std, W_PackMat>>, PyInt(3)),
      SheetRow(PyInt(5), <<W_dims, W_Std, W_PackSvc>>, PyInt(4)),
      SheetRow(PyInt(6), <<W_dims, W_Frg, W_PackMat>>, PyInt(6)),
      SheetRow(PyInt(7), <<W_dims, W_PackSvc, W_Fragile>>, PyInt(7)),
      SheetRow(PyInt(8), <<W_dims, W_Cust, W_PackMat>>, PyInt(8)),
      SheetRow(PyInt(9), <<W_dims, W_Cust, W_PackSvc>>, PyNone)>>

\* rows of other boxes, rows without dimensions, a row without a tier and
\* a row whose price cell holds text
ExtraRows ==
    {SheetRow(PyInt(20), <<W_dims109, W_Box>>, PyInt(5)),
     SheetRow(PyInt(21), <<W_dims12, W_box>>, PyInt(9)),
     SheetRow(PyInt(22), <<W_Electronics, W_Insert>>, PyText(T_na)),
     SheetRow(PyText(<<"2", "3">>), <<W_dims, W_PackSvc>>, PyInt(1)),
     SheetRow(PyNone, <<W_dims12, W_Box>>, PyText(T_na))}

\* rows of a discovery sheet: boxes of four sizes, one size written in
\* three ways, a service row, and a box row whose price cell holds text
W_dims100 == <<"1","0",".","0","x","1","0","x","1","0">>
W_dims10910 == <<"1","0","x","1","0",".","9","0","x","1","0">>

DiscoverRows ==
    {SheetRow(PyInt(30), <<W_dims100, W_Box>>, PyFloat(55, -1)),
     SheetRow(PyInt(20), <<W_dims109, W_Box>>, PyInt(5)),
     SheetRow(PyInt(31), <<W_dims10910, W_box>>, PyNone),
     SheetRow(PyInt(21), <<W_dims12, W_box>>, PyInt(9)),
     SheetRow(PyInt(1), <<W_dims, W_Basic, W_PackSvc>>, PyInt(2)),
     SheetRow(PyInt(32), <<W_dims12, W_Box>>, PyText(T_na))}

\* The regex search and the categorisation of every product name of the
\* rows above, looked up by name wherever the code runs them on a row.
SheetNames ==
    {BaseSheet[i].name : i \in 1..Len(BaseSheet)} \cup {r.name : r \in ExtraRows}
    \cup {r.name : r \in DiscoverRows}

NameInfo ==
    [n \in SheetNames |->
        [match |-> DimSearch(n), category |-> categorize_product(n)]]

RowMatch(row) == NameInfo[row.name].match
RowCategory(row) == NameInfo[row.name].category

\* ------------------------------------------------------------------------
\* analyze_import_for_matching: grouping of the sheet rows
\* A row is the dict built from the header row: Item, name ('Product
\* name') and Price.  A box is a Python dict: a function whose domain is
\* the set of keys present.
\* ------------------------------------------------------------------------
required_categories ==
    <<"box", "basic_materials", "basic_service",
      "standard_materials", "standard_service",
      "fragile_materials", "fragile_service",
      "custom_materials", "custom_service">>

RequiredSet == {required_categories[i] : i \in 1..Len(required_categories)}

\* float(row.get('Price', 0) or 0) raises ValueError on non-numeric text
PriceRaises(row) == row.Price.t = "str"

RowPrice(row) ==
    IF IsNumber(row.Price) THEN PyFloat(row.Price.m, row.Price.e)
    ELSE PyFloat(0, 0)

\* the item_data dict of a row whose product name holds a dimension triple
ItemData(row, match, dims_int) ==
    [item_id |-> row.Item,
     product_name |-> row.name,
     price |-> RowPrice(row),
     category |-> RowCategory(row),
     dimensions_exact |->
         DimString(match.groups[1], match.groups[2], match.groups[3]),
     dimensions_int |->
         DimString(FormatNat(dims_int[1]), FormatNat(dims_int[2]),
                   FormatNat(dims_int[3])),
     suffix |-> Strip(SubSeq(row.name, match.end, Len(row.name)))]

\* what one row adds to the groups: nothing when the search finds no triple
ItemOfRow(row, match) ==
    IF match = NoMatch THEN <<>>
    ELSE <<ItemData(row, match,
                    [i \in 1..3 |-> Trunc(FloatOfToken(match.groups[i]))])>>

RECURSIVE ItemsOf(_)
ItemsOf(rows) ==
    IF Len(rows) = 0 THEN <<>>
    ELSE ItemOfRow(rows[1], RowMatch(rows[1])) \o ItemsOf(Tail(rows))

\* excel_dimension_groups: truncated dimension string -> items, in row order
GroupsInt(items) ==
    [k \in {items[i].dimensions_int : i \in 1..Len(items)} |->
        LET InGroup(it) == it.dimensions_int = k IN SelectSeq(items, InGroup)]

\* excel_dimension_groups_exact: exact dimension string -> items
GroupsExact(items) ==
    [k \in {items[i].dimensions_exact : i \in 1..Len(items)} |->
        LET InGroup(it) == it.dimensions_exact = k IN SelectSeq(items, InGroup)]

\* ------------------------------------------------------------------------
\* analyze_import_for_matching: classification of one store box
\* ------------------------------------------------------------------------
BoxModel(box) == IF "model" \in DOMAIN box THEN box.model ELSE <<>>

\* BoxDimStrInt built from the untruncated dimensions
BoxDimStrInt_Exact(box) ==
    DimString(PyStr(box.dimensions[1]), PyStr(box.dimensions[2]),
              PyStr(box.dimensions[3]))

BoxDimStrInt(box) ==
    DimString(FormatNat(Trunc(box.dimensions[1])),
              FormatNat(Trunc(box.dimensions[2])),
              FormatNat(Trunc(box.dimensions[3])))

BoxDimStr(box) ==
    DimString(PyStr(box.dimensions[1]), PyStr(box.dimensions[2]),
              PyStr(box.dimensions[3]))

BoxHeader(box) ==
    [model |-> BoxModel(box), dimensions |-> BoxDimStr(box),
     dimensions_int |-> BoxDimStrInt(box)]

\* 'MPOS_mapping' in box and box['MPOS_mapping']
HasMapping(box) ==
    "MPOS_mapping" \in DOMAIN box /\ DOMAIN box.MPOS_mapping # {}

\* the inner loop over rows_data: the index of the first row from i on
\* whose str(Item) is item_id_str, 0 when the loop ends without a break
RECURSIVE FindItem(_, _, _)
FindItem(rows, item_id_str, i) ==
    IF i > Len(rows) THEN 0
    ELSE IF PyStr(rows[i].Item) = item_id_str THEN i
    ELSE FindItem(rows, item_id_str, i + 1)

\* for every field of the mapping, the row its item id was found in
FoundRows(box, rows) ==
    IF HasMapping(box)
    THEN [f \in DOMAIN box.MPOS_mapping |->
             FindItem(rows, PyStr(box.MPOS_mapping[f]), 1)]
    ELSE <<>>

\* mapped_items: the mapping fields whose item id was found in the sheet
MappedItems(box, rows, found) ==
    [f \in {g \in DOMAIN found : found[g] # 0} |->
        [item_id |-> box.MPOS_mapping[f],
         product_name |-> rows[found[f]].name,
         price |-> RowPrice(rows[found[f]])]]

\* IsPerfect asking for more than nine mapped items
IsPerfect_MoreThanNine(box, found) ==
    /\ HasMapping(box)
    /\ \A f \in DOMAIN found : found[f] # 0
    /\ Cardinality({f \in DOMAIN found : found[f] # 0}) > 9

\* all_found and len(mapped_items) >= 9
IsPerfect(box, found) ==
    /\ HasMapping(box)
    /\ \A f \in DOMAIN found : found[f] # 0
    /\ Cardinality({f \in DOMAIN found : found[f] # 0}) >= 9

\* the float() of the price of a mapped row raises
PricedRowRaises(rows, found) ==
    \E f \in DOMAIN found : found[f] # 0 /\ PriceRaises(rows[found[f]])

MappingRaises(box, rows) == PricedRowRaises(rows, FoundRows(box, rows))

\* categories_found: category -> the last item of the group that has it
CategoriesFound(excel_items) ==
    [c \in {excel_items[i].category : i \in 1..Len(excel_items)} \ {"other"} |->
        excel_items[CHOOSE i \in 1..Len(excel_items) :
                        /\ excel_items[i].category = c
                        /\ \A j \in 1..Len(excel_items) :
                               excel_items[j].category = c => j <= i]]

\* MissingCategories over the seven fields without the basic tier
MissingCategories_SevenFields(categories_found) ==
    LET NotFound(c) ==
            c \notin DOMAIN categories_found
            /\ c \notin {"basic_materials", "basic_service"}
    IN SelectSeq(required_categories, NotFound)

MissingCategories(categories_found) ==
    LET NotFound(c) == c \notin DOMAIN categories_found
    IN SelectSeq(required_categories, NotFound)

\* the entry of a box whose mapping is complete and found
PerfectEntry(box, header, mapped_items) ==
    [tier |-> "perfect",
     entry |-> [box |-> header,
                mapped_items |-> mapped_items,
                current_prices |->
                    IF "itemized-prices" \in DOMAIN box
                    THEN box["itemized-prices"] ELSE <<>>]]

\* the entry of a box whose truncated dimensions name a group
GroupEntry(header, excel_items, categories_found, missing) ==
    IF Len(missing) = 0
    THEN [tier |-> "probable",
          entry |-> [box |-> header,
                     excel_items |-> excel_items,
                     categories_found |-> categories_found,
                     is_complete |-> TRUE]]
    ELSE [tier |-> "incomplete",
          entry |-> [box |-> header,
                     excel_items |-> excel_items,
                     categories_found |-> categories_found,
                     missing_categories |-> missing,
                     reason |-> "incomplete_categories"]]

GroupCompleteness(header, excel_items, categories_found) ==
    GroupEntry(header, excel_items, categories_found,
               MissingCategories(categories_found))

\* the dimension-based match of a box that is not a perfect match
ClassifyByDimensions(header, groups) ==
    IF header.dimensions_int \in DOMAIN groups
    THEN GroupCompleteness(header, groups[header.dimensions_int],
                           CategoriesFound(groups[header.dimensions_int]))
    ELSE [tier |-> "manual",
          entry |-> [box |-> header,
                     excel_items |-> <<>>,
                     reason |-> "no_dimension_match"]]

\* one pass of the loop over the store boxes
ClassifyMapped(box, rows, groups, header, found) ==
    IF IsPerfect(box, found)
    THEN PerfectEntry(box, header, MappedItems(box, rows, found))
    ELSE ClassifyByDimensions(header, groups)

\* the tier of a box and the entry appended to that tier's list
ClassifyBox(box, rows, groups) ==
    ClassifyMapped(box, rows, groups, BoxHeader(box), FoundRows(box, rows))

\* the classification of every store box, in store order
RECURSIVE ClassifyAll(_, _, _)
ClassifyAll(boxes, rows, groups) ==
    IF Len(boxes) = 0 THEN <<>>
    ELSE <<ClassifyBox(boxes[1], rows, groups)>>
         \o ClassifyAll(Tail(boxes), rows, groups)

\* TierList without the `continue` of the perfect branch: a perfect box is
\* also appended to the manual list
RECURSIVE TierList_NoContinue(_, _)
TierList_NoContinue(classes, tier) ==
    IF Len(classes) = 0 THEN <<>>
    ELSE (IF classes[1].tier = tier
             \/ (tier = "manual" /\ classes[1].tier = "perfect")
          THEN <<classes[1].entry>> ELSE <<>>)
         \o TierList_NoContinue(Tail(classes), tier)

\* the entries appended to one tier's list, in store order
RECURSIVE TierList(_, _)
TierList(classes, tier) ==
    IF Len(classes) = 0 THEN <<>>
    ELSE (IF classes[1].tier = tier THEN <<classes[1].entry>> ELSE <<>>)
         \o TierList(Tail(classes), tier)

\* the returned dict
AnalysisReport(boxes, groups, groups_exact, perfect, probable, incomplete, manual) ==
    [status |-> 200,
     summary |-> [total_boxes |-> Len(boxes),
                  perfect_matches |-> Len(perfect),
                  probable_matches |-> Len(probable),
                  incomplete_matches |-> Len(incomplete),
                  manual_required |-> Len(manual),
                  excel_dimensions |-> Cardinality(DOMAIN groups)],
     perfect_matches |-> perfect,
     probable_matches |-> probable,
     incomplete_matches |-> incomplete,
     manual_required |-> manual,
     excel_dimension_groups |-> groups,
     excel_dimension_groups_exact |-> groups_exact]

\* the four tier lists filled by the loop over the store boxes
AnalyzeMatches(boxes, groups, groups_exact, classes) ==
    AnalysisReport(boxes, groups, groups_exact,
                   TierList(classes, "perfect"), TierList(classes, "probable"),
                   TierList(classes, "incomplete"), TierList(classes, "manual"))

\* the loop over the store boxes, run on the groups of the sheet
AnalyzeBoxes(rows, boxes, groups, groups_exact) ==
    AnalyzeMatches(boxes, groups, groups_exact,
                   ClassifyAll(boxes, rows, groups))

\* the grouping of the sheet items by dimension string
AnalyzeItems(rows, boxes, items) ==
    AnalyzeBoxes(rows, boxes, GroupsInt(items), GroupsExact(items))

\* the value returned by analyze_import_for_matching for parsed rows, or
\* the HTTP 500 raised from the except clause
AnalyzeResult(rows, boxes) ==
    IF \/ \E i \in 1..Len(rows) :
              RowMatch(rows[i]) # NoMatch /\ PriceRaises(rows[i])
       \/ \E b \in 1..Len(boxes) : MappingRaises(boxes[b], rows)
    THEN [status |-> 500]
    ELSE AnalyzeItems(rows, boxes, ItemsOf(rows))

\* ------------------------------------------------------------------------
\* Sheets and store lists the analysis is exercised on
\* ------------------------------------------------------------------------
\* a part of the base sheet (first and last row), then the extra rows
BaseParts == {<<1, 0>>, <<1, 1>>, <<1, 2>>, <<1, 8>>, <<1, 9>>, <<2, 9>>}

Sheets ==
    {SubSeq(BaseSheet, part[1], part[2]) \o extra :
        part \in BaseParts,
        extra \in UNION {[1..n -> ExtraRows] : n \in 0..MaxExtraRows}}

D10 == <<PyInt(10), PyInt(10), PyInt(10)>>
D105 == <<PyFloat(105, -1), PyInt(10), PyFloat(10, 0)>>
D12 == <<PyInt(12), PyInt(12), PyInt(12)>>
D20 == <<PyInt(20), PyInt(20), PyInt(20)>>

\* an MPOS_mapping that maps each of the nine fields to one item id
MapAllTo(item_id) == [f \in RequiredSet |-> item_id]

ZeroPrices ==
    [f \in {"box-price", "basic-materials", "basic-services",
            "standard-materials", "standard-services",
            "fragile-materials", "fragile-services",
            "custom-materials", "custom-services"} |-> PyInt(0)]

\* dict updates used to build the store boxes
WithPrices(box, prices) == box @@ ("itemized-prices" :> prices)
WithMapping(box, mapping) == box @@ ("MPOS_mapping" :> mapping)

BoxChoices ==
    {WithPrices([type |-> "NormalBox", model |-> <<"A">>, dimensions |-> D10],
                ZeroPrices),
     WithPrices([type |-> "NormalBox", model |-> <<"B">>, dimensions |-> D105],
                ZeroPrices),
     WithMapping([type |-> "NormalBox", model |-> <<"D">>, dimensions |-> D20],
                 MapAllTo(PyInt(1))),
     WithMapping(WithPrices([type |-> "NormalBox", model |-> <<"E">>,
                             dimensions |-> D10], ZeroPrices),
                 MapAllTo(PyText(<<"2">>))),
     WithMapping([type |-> "NormalBox", dimensions |-> D10],
                 [MapAllTo(PyInt(1)) EXCEPT !["custom_service"] = PyInt(22)]),
     WithMapping([type |-> "CustomBox", model |-> <<"G">>, dimensions |-> D12],
                 [f \in RequiredSet \ {"basic_service"} |-> PyInt(2)])}

StoreLists == UNION {[1..n -> BoxChoices] : n \in 0..MaxBoxes}

\* ------------------------------------------------------------------------
\* validate_box_data
\* The box is a dict from field names to Python values; a list value
\* carries its items, a dict value its fields.
\* ------------------------------------------------------------------------
PyList(items) == [t |-> "list", items |-> items]
PyDict(fields) == [t |-> "dict", fields |-> fields]
EmptyDict == [k \in {} |-> PyNone]

\* dict updates
WithField(box, key, value) == (key :> value) @@ box
WithoutField(box, key) == [k \in DOMAIN box \ {key} |-> box[k]]

required_fields ==
    <<"box-price", "standard-materials", "standard-services",
      "fragile-materials", "fragile-services",
      "custom-materials", "custom-services">>

NoError == [raised |-> FALSE, message |-> "", field |-> ""]
ValueError(message, field) ==
    [raised |-> TRUE, message |-> message, field |-> field]

\* the loop over required_fields: the first field absent from the prices,
\* "" when the loop ends
RECURSIVE FirstMissingField(_, _)
FirstMissingField(prices, i) ==
    IF i > Len(required_fields) THEN ""
    ELSE IF required_fields[i] \notin DOMAIN prices THEN required_fields[i]
    ELSE FirstMissingField(prices, i + 1)

MissingFieldError(field) ==
    IF field = "" THEN NoError
    ELSE ValueError("Box missing required field in itemized-prices", field)

\* the checks of type, dimensions, itemized-prices and model
RequiredFieldsError(box) ==
    IF "type" \notin DOMAIN box
    THEN ValueError("Box missing required 'type' field", "")
    ELSE IF \/ "dimensions" \notin DOMAIN box
            \/ box.dimensions.t # "list"
            \/ Len(box.dimensions.items) # 3
    THEN ValueError("Box has invalid 'dimensions' (must be list of 3 numbers)", "")
    ELSE IF \/ "itemized-prices" \notin DOMAIN box
            \/ box["itemized-prices"].t # "dict"
    THEN ValueError("Box missing 'itemized-prices' (must be an object)", "")
    ELSE IF FirstMissingField(box["itemized-prices"].fields, 1) # ""
    THEN MissingFieldError(FirstMissingField(box["itemized-prices"].fields, 1))
    ELSE IF "model" \in DOMAIN box /\ box.model.t # "str"
    THEN ValueError("Box has invalid 'model' (must be a string)", "")
    ELSE NoError

\* box_data["location"] = {} for a location of None
NormalizeLocation(box) ==
    IF "location" \in DOMAIN box /\ box.location.t = "none"
    THEN [box EXCEPT !["location"] = PyDict(EmptyDict)]
    ELSE box

\* the checks of location, run on the box with its location normalised
LocationError(box) ==
    IF "location" \notin DOMAIN box THEN NoError
    ELSE IF box.location.t \notin {"str", "dict"}
    THEN ValueError("Box has invalid 'location' (must be a dictionary or string)", "")
    ELSE IF /\ box.location.t = "dict"
            /\ "coords" \in DOMAIN box.location.fields
            /\ box.location.fields.coords.t # "none"
    THEN IF \/ box.location.fields.coords.t # "list"
            \/ Len(box.location.fields.coords.items) # 2
         THEN ValueError("Box has invalid 'location.coords' (must be a list of 2 numbers)", "")
         ELSE IF \E i \in 1..2 : ~IsNumber(box.location.fields.coords.items[i])
         THEN ValueError("Box has invalid coordinate values (must be numbers)", "")
         ELSE NoError
    ELSE NoError

\* the checks of alternate_depths
DepthsError(box) ==
    IF "alternate_depths" \notin DOMAIN box THEN NoError
    ELSE IF box.alternate_depths.t # "list"
    THEN ValueError("Box has invalid 'alternate_depths' (must be a list of numbers)", "")
    ELSE IF \E i \in 1..Len(box.alternate_depths.items) :
                ~IsNumber(box.alternate_depths.items[i])
    THEN ValueError("Box has invalid value in 'alternate_depths' (must be numbers)", "")
    ELSE NoError

OptionalFieldsError(box) ==
    IF LocationError(box).raised THEN LocationError(box) ELSE DepthsError(box)

\* how validate_box_data ends: NoError when it returns, else its ValueError
ValidationResult(box) ==
    IF RequiredFieldsError(box).raised THEN RequiredFieldsError(box)
    ELSE OptionalFieldsError(NormalizeLocation(box))

\* the box as validate_box_data leaves it
ValidatedBox(box) ==
    IF RequiredFieldsError(box).raised THEN box ELSE NormalizeLocation(box)

\* ------------------------------------------------------------------------
\* Boxes the validation is exercised on
\* ------------------------------------------------------------------------
W_NormalBox == <<"N","o","r","m","a","l","B","o","x">>
W_CustomBox == <<"C","u","s","t","o","m","B","o","x">>

\* the nine fields written by save_store_yaml and set by create_box
itemized_price_fields == DOMAIN ZeroPrices

GoodBox ==
    ("type" :> PyText(W_NormalBox)) @@ ("model" :> PyText(<<"A">>))
    @@ ("dimensions" :> PyList(D10)) @@ ("itemized-prices" :> PyDict(ZeroPrices))

\* a well-formed box whose itemized-prices hold any part of the nine fields
PriceSubsetBoxes ==
    {WithField(GoodBox, "itemized-prices", PyDict([f \in fs |-> PyInt(0)])) :
        fs \in SUBSET itemized_price_fields}

Coords(x, y) == PyDict([coords |-> PyList(<<x, y>>)])

LocationChoices ==
    {PyNone, PyInt(3), PyText(<<"A", "1">>), PyDict(EmptyDict),
     Coords(PyFloat(5, -1), PyInt(1)), Coords(PyText(<<"x">>), PyInt(1)),
     PyDict([coords |-> PyNone]), PyDict([coords |-> PyInt(1)]),
     PyDict([coords |-> PyList(<<PyInt(1), PyInt(2), PyInt(3)>>)])}

DepthChoices ==
    {PyInt(4), PyList(<<>>), PyList(<<PyInt(4), PyFloat(65, -1)>>),
     PyList(<<PyInt(4), PyText(<<"x">>)>>)}

\* a well-formed box with one field removed or replaced
DefectBoxes ==
    {WithoutField(GoodBox, k) : k \in DOMAIN GoodBox}
    \cup {WithField(GoodBox, "dimensions", v) :
              v \in {PyText(<<"1", "0">>), PyList(<<PyInt(10), PyInt(10)>>)}}
    \cup {WithField(GoodBox, "itemized-prices", PyList(<<PyInt(0)>>)),
          WithField(GoodBox, "model", PyInt(7))}
    \cup {WithField(GoodBox, "location", v) : v \in LocationChoices}
    \cup {WithField(GoodBox, "alternate_depths", v) : v \in DepthChoices}
    \cup {WithField(WithField(GoodBox, "location", PyNone), "alternate_depths", v) :
              v \in DepthChoices}
    \cup {WithField(WithoutField(GoodBox, "type"), "location", PyNone)}

ValidateInputs == PriceSubsetBoxes \cup DefectBoxes

\* ------------------------------------------------------------------------
\* save_store_yaml: the text written for each box.  The file is kept as the
\* list of its box blocks; a block maps the key a line starts with to the
\* text written after it (itemized-prices: to the texts of its nine lines).
\* ------------------------------------------------------------------------
DQ == "\""
BS == "\\"

T_Unknown == <<"U","n","k","n","o","w","n">>

RECURSIVE JoinTexts(_, _)
JoinTexts(texts, sep) ==
    IF Len(texts) = 0 THEN <<>>
    ELSE IF Len(texts) = 1 THEN texts[1]
    ELSE texts[1] \o sep \o JoinTexts(Tail(texts), sep)

\* float(d) of an int or a float
ToFloat(v) == PyFloat(v.m, v.e)

\* a float without fractional part becomes an int
normalize_float(value) ==
    IF value.t = "float" /\ Normalize(value.m, value.e)[2] >= 0
    THEN PyInt(Trunc(value))
    ELSE value

\* box.get('model', f"Unknown-{d0}-{d1}-{d2}")
ModelOrUnknown(box) ==
    IF "model" \in DOMAIN box THEN PyStr(box.model)
    ELSE JoinTexts(<<T_Unknown, PyStr(box.dimensions.items[1]),
                     PyStr(box.dimensions.items[2]),
                     PyStr(box.dimensions.items[3])>>, <<"-">>)

NoLines == [k \in {} |-> <<>>]

TypeLine(box) == "type" :> PyStr(box.type)

\* model: "{model}", skipped for a box of store 1 that has no model
ModelLine(store_id, box) ==
    IF store_id = "1" /\ "model" \notin DOMAIN box THEN NoLines
    ELSE "model" :> (<<DQ>> \o ModelOrUnknown(box) \o <<DQ>>)

DimensionItem(d) ==
    IF IsNumber(d) THEN PyStr(normalize_float(ToFloat(d))) ELSE <<"0">>

DimensionsLine(box) ==
    "dimensions" :>
        IF box.dimensions.t = "list" /\ Len(box.dimensions.items) = 3
        THEN <<"[">>
             \o JoinTexts([i \in 1..3 |-> DimensionItem(box.dimensions.items[i])],
                          <<",">>)
             \o <<"]">>
        ELSE <<"[", "0", ",", "0", ",", "0", "]">>

\* {ip.get(field, 0)}
PriceText(ip, field) ==
    IF field \in DOMAIN ip THEN PyStr(ip[field]) ELSE <<"0">>

PriceLines(box) ==
    IF "itemized-prices" \in DOMAIN box
    THEN "itemized-prices" :>
             [f \in itemized_price_fields |->
                 PriceText(box["itemized-prices"].fields, f)]
    ELSE NoLines

\* the truth value of a Python value
Truthy(v) ==
    CASE v.t = "none" -> FALSE
      [] v.t \in {"int", "float"} -> v.m # 0
      [] v.t = "str" -> Len(v.s) > 0
      [] v.t = "list" -> Len(v.items) > 0
      [] OTHER -> DOMAIN v.fields # {}

\* float(c) if isinstance(c, (int, float)) else 0, formatted
CoordText(c) == IF IsNumber(c) THEN PyStr(ToFloat(c)) ELSE <<"0">>

\* the text after "coords:", none when coords is not a list of two
CoordsText(coords) ==
    IF coords.t = "list" /\ Len(coords.items) = 2
    THEN <<"[">> \o CoordText(coords.items[1]) \o <<",", " ">>
         \o CoordText(coords.items[2]) \o <<"]">>
    ELSE <<>>

\* the lines of a location that is present: "location:" and its coords
\* line are written for a dict with truthy coords only
LocationOf(location) ==
    IF /\ location.t = "dict"
       /\ "coords" \in DOMAIN location.fields
       /\ Truthy(location.fields.coords)
    THEN "location" :> CoordsText(location.fields.coords)
    ELSE NoLines

LocationLines(box) ==
    IF "location" \in DOMAIN box THEN LocationOf(box.location) ELSE NoLines

\* the mapping fields written, in the order of the nine names
mapping_fields == RequiredSet

\* MPOS_mapping: a line for each of the nine fields the mapping holds
MappingLines(box) ==
    IF "MPOS_mapping" \in DOMAIN box /\ box.MPOS_mapping.t = "dict"
    THEN "MPOS_mapping" :>
             [f \in mapping_fields \cap DOMAIN box.MPOS_mapping.fields |->
                 PyStr(box.MPOS_mapping.fields[f])]
    ELSE NoLines

BoxBlock(store_id, box) ==
    TypeLine(box) @@ ModelLine(store_id, box) @@ DimensionsLine(box)
    @@ PriceLines(box) @@ LocationLines(box) @@ MappingLines(box)

\* the boxes part of the file written by save_store_yaml
SaveFile(store_id, boxes) ==
    [written |-> TRUE,
     blocks |-> [i \in 1..Len(boxes) |-> BoxBlock(store_id, boxes[i])]]

\* ------------------------------------------------------------------------
\* load_store_yaml: yaml.safe_load of the written text
\* ------------------------------------------------------------------------
\* the escapes of a double-quoted scalar; a control character is written
\* by its name (hexadecimal escapes are not drawn by the model)
ESCAPE_REPLACEMENTS ==
    ("0" :> "<NUL>") @@ ("a" :> "<BEL>") @@ ("b" :> "<BS>") @@ ("t" :> "\t")
    @@ ("n" :> "\n") @@ ("v" :> "<VT>") @@ ("f" :> "\f") @@ ("r" :> "\r")
    @@ ("e" :> "<ESC>") @@ (" " :> " ") @@ (DQ :> DQ) @@ ("/" :> "/")
    @@ (BS :> BS) @@ ("N" :> "<NEL>") @@ ("_" :> "<NBSP>")
    @@ ("L" :> "<LS>") @@ ("P" :> "<PS>")

ScanError == [ok |-> FALSE, value |-> <<>>]

\* what follows the closing quote on the line: blanks and a comment are
\* skipped, any other text is a second scalar the parser rejects
AfterScalar(text, p, chunks) ==
    IF p > Len(text) \/ text[p] = "#"
    THEN [ok |-> TRUE, value |-> chunks]
    ELSE ScanError

\* the double-quoted scalar whose opening quote stands before position i.
\* A scalar not closed on its line runs on through the following lines;
\* with the names drawn here the parser rejects every such file.
RECURSIVE ScanDoubleQuoted(_, _, _)
ScanDoubleQuoted(text, i, chunks) ==
    IF i > Len(text) THEN ScanError
    ELSE IF text[i] = DQ THEN AfterScalar(text, SkipSpaces(text, i + 1), chunks)
    ELSE IF text[i] # BS
    THEN ScanDoubleQuoted(text, i + 1, Append(chunks, text[i]))
    ELSE IF i + 1 <= Len(text) /\ text[i + 1] \in DOMAIN ESCAPE_REPLACEMENTS
    THEN ScanDoubleQuoted(text, i + 2,
                          Append(chunks, ESCAPE_REPLACEMENTS[text[i + 1]]))
    ELSE ScanError

\* base-8 value of a digit text
RECURSIVE ParseOctal(_)
ParseOctal(s) ==
    IF Len(s) = 0 THEN 0
    ELSE 8 * ParseOctal(SubSeq(s, 1, Len(s) - 1)) + DigitVal(s[Len(s)])

\* the int resolver on a text of digits: decimal, or octal after a leading 0
ResolveDigits(text) ==
    IF Len(text) = 1 \/ text[1] # "0" THEN PyInt(ParseNat(text))
    ELSE IF \A i \in 1..Len(text) : DigitVal(text[i]) < 8
    THEN PyInt(ParseOctal(text))
    ELSE PyText(text)

\* the float resolver [0-9]+\.[0-9]*([eE][-+][0-9]+)? on a text whose
\* integer digits end before d and whose fraction digits end before f
ResolveFloat(text, d, f) ==
    IF f > Len(text)
    THEN PyFloat(ParseNat(SubSeq(text, 1, d - 1) \o SubSeq(text, d + 1, f - 1)),
                 -(f - d - 1))
    ELSE IF /\ text[f] \in {"e", "E"}
            /\ f + 2 <= Len(text)
            /\ text[f + 1] \in {"+", "-"}
            /\ SkipDigits(text, f + 2) = Len(text) + 1
    THEN PyFloat(ParseNat(SubSeq(text, 1, d - 1) \o SubSeq(text, d + 1, f - 1)),
                 -(f - d - 1)
                 + (IF text[f + 1] = "-" THEN -1 ELSE 1)
                     * ParseNat(SubSeq(text, f + 2, Len(text))))
    ELSE PyText(text)

\* a text with a digit first: d is the position after its leading digits
ResolveNumber(text, d) ==
    IF d > Len(text) THEN ResolveDigits(text)
    ELSE IF text[d] = "." THEN ResolveFloat(text, d, SkipDigits(text, d + 1))
    ELSE PyText(text)

\* the resolvers allow a sign before the digits
ResolveSigned(text, value) ==
    IF ~IsNumber(value) THEN PyText(text)
    ELSE IF text[1] = "-" THEN [value EXCEPT !.m = -value.m]
    ELSE value

\* the implicit type of a plain scalar written by save_store_yaml
ResolvePlain(text) ==
    IF Len(text) > 0 /\ IsDigit(text[1])
    THEN ResolveNumber(text, SkipDigits(text, 1))
    ELSE IF Len(text) > 1 /\ text[1] \in {"-", "+"} /\ IsDigit(text[2])
    THEN ResolveSigned(text, ResolveNumber(Tail(text), SkipDigits(Tail(text), 1)))
    ELSE PyText(text)

\* the items of a flow sequence between positions i and the closing bracket
RECURSIVE FlowItems(_, _, _)
FlowItems(text, i, item) ==
    IF i > Len(text) \/ text[i] = "]" THEN <<ResolvePlain(Strip(item))>>
    ELSE IF text[i] = ","
    THEN <<ResolvePlain(Strip(item))>> \o FlowItems(text, i + 1, <<>>)
    ELSE FlowItems(text, i + 1, Append(item, text[i]))

ParseFlowList(text) == PyList(FlowItems(text, 2, <<>>))

\* the value of the model line
LoadModel(text) == ScanDoubleQuoted(text, 2, <<>>)

NoFields == [k \in {} |-> PyNone]

LoadedType(block) == "type" :> ResolvePlain(block.type)

LoadedModel(block) ==
    IF "model" \in DOMAIN block
    THEN "model" :> PyText(LoadModel(block.model).value)
    ELSE NoFields

LoadedDimensions(block) == "dimensions" :> ParseFlowList(block.dimensions)

LoadedPrices(block) ==
    IF "itemized-prices" \in DOMAIN block
    THEN "itemized-prices" :>
             PyDict([f \in DOMAIN block["itemized-prices"] |->
                        ResolvePlain(block["itemized-prices"][f])])
    ELSE NoFields

\* "location:" without a coords line loads as None
LoadedLocation(block) ==
    IF "location" \notin DOMAIN block THEN NoFields
    ELSE IF Len(block.location) = 0 THEN "location" :> PyNone
    ELSE "location" :> PyDict([coords |-> ParseFlowList(block.location)])

\* "MPOS_mapping:" without a field line loads as None
LoadedMapping(block) ==
    IF "MPOS_mapping" \notin DOMAIN block THEN NoFields
    ELSE IF DOMAIN block.MPOS_mapping = {} THEN "MPOS_mapping" :> PyNone
    ELSE "MPOS_mapping" :>
             PyDict([f \in DOMAIN block.MPOS_mapping |->
                        ResolvePlain(block.MPOS_mapping[f])])

LoadedBox(block) ==
    LoadedType(block) @@ LoadedModel(block) @@ LoadedDimensions(block)
    @@ LoadedPrices(block) @@ LoadedLocation(block) @@ LoadedMapping(block)

\* the file cannot be parsed
YamlError(blocks) ==
    \E i \in 1..Len(blocks) :
        "model" \in DOMAIN blocks[i] /\ ~LoadModel(blocks[i].model).ok

\* load_store_yaml: the store data, or the HTTP 500 of a YAMLError
LoadFile(file) ==
    IF YamlError(file.blocks) THEN [status |-> 500, boxes |-> <<>>]
    ELSE [status |-> 200,
          boxes |-> [i \in 1..Len(file.blocks) |-> LoadedBox(file.blocks[i])]]

\* ------------------------------------------------------------------------
\* CreateBoxRequest and the box built from it by create_box and
\* create_boxes_batch; update_itemized_prices on one field of a box.
\* (alternate_depths and notes are left out of the boxes of the model.)
\* ------------------------------------------------------------------------
\* a <= b on numbers m * 10^e
NumLeq(a, b) ==
    IF a.e <= b.e THEN a.m <= b.m * Pow10(b.e - a.e)
    ELSE a.m * Pow10(a.e - b.e) <= b.m

SpecialChars ==
    {<<";">>, <<"-", "-">>, <<"/", "*">>, <<"*", "/">>, <<"<NUL>">>}

validate_model_no_special_chars(v) ==
    \A bad \in SpecialChars : ~Contains(v, bad)

\* Field(..., min_length=1, max_length=50) and the validator
ModelAccepted(v) ==
    Len(v) >= 1 /\ Len(v) <= 50 /\ validate_model_no_special_chars(v)

validate_dimensions(v) ==
    NumLeq(PyFloat(1, -1), v) /\ NumLeq(v, PyInt(1000))

DimensionsAccepted(dims) ==
    Len(dims) = 3 /\ \A i \in 1..3 : validate_dimensions(dims[i])

\* the location of the request, when it is truthy
NewBoxLocation(request) ==
    IF Truthy(request.location) THEN "location" :> request.location
    ELSE NoFields

\* new_box
NewBox(request) ==
    ("type" :> PyText(IF request.from_library THEN W_NormalBox ELSE W_CustomBox))
    @@ ("model" :> PyText(request.model))
    @@ ("dimensions" :> PyList(request.dimensions))
    @@ NewBoxLocation(request)
    @@ ("itemized-prices" :> PyDict(ZeroPrices))

\* isinstance(new_price, (int, float)) and 0 <= new_price <= 10000
PriceAccepted(new_price) ==
    /\ IsNumber(new_price)
    /\ new_price.m >= 0
    /\ NumLeq(new_price, PyInt(10000))

\* box["itemized-prices"][yaml_field] = new_price
SetPrice(box, yaml_field, new_price) ==
    [box EXCEPT !["itemized-prices"] =
        PyDict((yaml_field :> new_price) @@ box["itemized-prices"].fields)]

\* ------------------------------------------------------------------------
\* Requests and box lists the store file is exercised on
\* ------------------------------------------------------------------------
ModelChars == {"A", "-", DQ, BS}

ModelTexts == UNION {[1..n -> ModelChars] : n \in 0..MaxModelLen}

DimensionChoices ==
    {<<PyFloat(10, 0), PyFloat(10, 0), PyFloat(10, 0)>>,
     <<PyFloat(105, -1), PyFloat(1000, 0), PyFloat(1, -1)>>,
     <<PyFloat(10, 0), PyFloat(0, 0), PyFloat(10, 0)>>,
     <<PyFloat(10, 0), PyFloat(10001, -1), PyFloat(10, 0)>>}

RequestLocations == {PyNone, Coords(PyFloat(5, -1), PyInt(1))}

\* request bodies, the refused ones among them
BoxRequests ==
    [model : ModelTexts, dimensions : DimensionChoices,
     from_library : BOOLEAN, location : RequestLocations]

RequestAccepted(request) ==
    ModelAccepted(request.model) /\ DimensionsAccepted(request.dimensions)

PriceChoices ==
    {PyFloat(25, -1), PyFloat(1, -5), PyFloat(10000, 0),
     PyFloat(100001, -1), PyFloat(-1, 0), PyText(<<"x">>)}

\* boxes as create_box builds them; for the plainest request, its prices
\* after one accepted update
NewBoxes ==
    {NewBox(r) : r \in {q \in BoxRequests :
                           /\ RequestAccepted(q)
                           /\ ~q.from_library
                           /\ \/ q.dimensions[1] = q.dimensions[2]
                              \/ q.model = <<"A">>
                           /\ \/ q.location = PyNone
                              \/ q.model = <<"A">>}}

PricedBoxes ==
    {SetPrice(b, "box-price", price) :
        b \in {n \in NewBoxes : n.model = PyText(<<"A">>)},
        price \in {q \in PriceChoices : PriceAccepted(q)}}

ApiBoxes == NewBoxes \cup PricedBoxes

\* a box of a file written before boxes had models
LegacyBox == ("type" :> PyText(W_NormalBox)) @@ ("dimensions" :> PyList(D10))

YamlBoxLists ==
    UNION {[1..n -> ApiBoxes \cup {LegacyBox}] : n \in 0..MaxYamlBoxes}

\* ------------------------------------------------------------------------
\* Sessions and the authentication dependencies of the endpoints.
\* store_auth holds an active row for each store; rate limits and the
\* expiry of codes and sessions are outside the model.
\* ------------------------------------------------------------------------
StoreIds == {"1", "2"}

store_auth ==
    [s \in StoreIds |->
        [pin |-> IF s = "1" THEN "111111" ELSE "222222",
         admin_email |-> IF s = "1" THEN "admin1@x" ELSE "admin2@x"]]

Tokens == 1..MaxSessions

NoSession == [store_id |-> "", auth_level |-> ""]

\* verify_session: the row of the token, None when there is none
verify_session(token) == sessions[token]

verify_pin(store_id, pin) == pin = store_auth[store_id].pin

FreeTokens == {t \in Tokens : sessions[t] = NoSession}

\* create_session: a row under a token not in the table
create_session(store_id, auth_level) ==
    [sessions EXCEPT ![CHOOSE t \in FreeTokens : \A u \in FreeTokens : t <= u] =
        [store_id |-> store_id, auth_level |-> auth_level]]

\* delete_session
delete_session(token) == [sessions EXCEPT ![token] = NoSession]

\* create_email_verification_code: the codes of the store are invalidated
\* and the new one is inserted; a ValueError for another email
CodesAfterSend(store_id, email, code) ==
    IF email # store_auth[store_id].admin_email THEN email_codes
    ELSE {c \in email_codes : c.store_id # store_id \/ c.email # email}
         \cup {[store_id |-> store_id, email |-> email, code |-> code]}

\* verify_email_code
verify_email_code(store_id, email, code) ==
    [store_id |-> store_id, email |-> email, code |-> code] \in email_codes

\* Depends(get_current_auth()) and the checks at the head of a handler
\* for admins; 200 when all pass. The body is validated once the
\* dependency is resolved.
AdminGate(auth, store_id, body_valid) ==
    IF auth = NoSession THEN 401
    ELSE IF ~body_valid THEN 422
    ELSE IF auth.auth_level # "admin" THEN 403
    ELSE IF auth.store_id # store_id THEN 403
    ELSE 200

\* Depends(get_current_auth()) and the store check of a reading handler
StoreGate(auth, store_id) ==
    IF auth = NoSession THEN 401
    ELSE IF auth.store_id # store_id THEN 403
    ELSE 200

\* Depends(get_current_store), then the body and the CSRF token
SessionGate(auth, body_valid) ==
    IF auth = NoSession THEN 401
    ELSE IF ~body_valid THEN 422
    ELSE 200

\* not update_data.csrf_token or len(update_data.csrf_token) < 10
CsrfRefused(csrf_token) == Len(csrf_token) < 10

\* ------------------------------------------------------------------------
\* What a handler does with the loaded store: the status of its response
\* and the box list it saves, if it saves
\* ------------------------------------------------------------------------
Refused(status_code) ==
    [status_code |-> status_code, save |-> FALSE, boxes |-> <<>>]

Saved(boxes) == [status_code |-> 200, save |-> TRUE, boxes |-> boxes]

Served == [status_code |-> 200, save |-> FALSE, boxes |-> <<>>]

\* box.get("model", "")
ModelOrEmpty(box) ==
    IF "model" \in DOMAIN box THEN box.model ELSE PyText(<<>>)

existing_models(boxes) == {ModelOrEmpty(boxes[i]) : i \in 1..Len(boxes)}

\* box.get("model", f"Unknown-{len(dims)}-{d0}-{d1}-{d2}")
box_model(box) ==
    IF "model" \in DOMAIN box THEN box.model
    ELSE PyText(JoinTexts(<<T_Unknown,
                            FormatNat(Len(box.dimensions.items)),
                            PyStr(box.dimensions.items[1]),
                            PyStr(box.dimensions.items[2]),
                            PyStr(box.dimensions.items[3])>>, <<"-">>))

\* get_boxes
get_boxes_outcome(gate, data) ==
    IF gate # 200 THEN Refused(gate)
    ELSE IF data.status # 200 THEN Refused(data.status)
    ELSE IF \E i \in 1..Len(data.boxes) : ValidationResult(data.boxes[i]).raised
    THEN Refused(500)
    ELSE Served

\* get_box_locations
get_box_locations_outcome(data) ==
    IF data.status # 200 THEN Refused(data.status) ELSE Served

\* create_box
create_box_outcome(gate, request, data) ==
    IF gate # 200 THEN Refused(gate)
    ELSE IF data.status # 200 THEN Refused(data.status)
    ELSE IF PyText(request.model) \in existing_models(data.boxes)
    THEN Refused(400)
    ELSE IF ValidationResult(NewBox(request)).raised THEN Refused(400)
    ELSE Saved(Append(data.boxes, NewBox(request)))

\* duplicates = [model for model in new_models if model in existing_models]
duplicates(requests, boxes) ==
    {i \in 1..Len(requests) :
        PyText(requests[i].model) \in existing_models(boxes)}

\* create_boxes_batch
create_boxes_batch_outcome(gate, requests, data) ==
    IF gate # 200 THEN Refused(gate)
    ELSE IF data.status # 200 THEN Refused(data.status)
    ELSE IF duplicates(requests, data.boxes) # {} THEN Refused(400)
    ELSE Saved(data.boxes \o [i \in 1..Len(requests) |-> NewBox(requests[i])])

\* the boxes kept by delete_box
Remaining(boxes, model) ==
    SelectSeq(boxes, LAMBDA box : box_model(box) # PyText(model))

\* delete_box, once the store is loaded
delete_box_kept(boxes, kept) ==
    IF Len(kept) = Len(boxes) THEN Refused(404) ELSE Saved(kept)

delete_box_outcome(gate, model, data) ==
    IF gate # 200 THEN Refused(gate)
    ELSE IF data.status # 200 THEN Refused(data.status)
    ELSE delete_box_kept(data.boxes, Remaining(data.boxes, model))

\* the index of the first box with the model, 0 when there is none
RECURSIVE FirstWithModel(_, _, _)
FirstWithModel(boxes, model, i) ==
    IF i > Len(boxes) THEN 0
    ELSE IF box_model(boxes[i]) = PyText(model) THEN i
    ELSE FirstWithModel(boxes, model, i + 1)

\* box["location"] = location, or box.pop("location", None)
SetLocation(box, location) ==
    IF Truthy(location) THEN WithField(box, "location", location)
    ELSE WithoutField(box, "location")

\* update_box_location, once the box is searched
update_box_location_found(boxes, i, location) ==
    IF i = 0 THEN Refused(404)
    ELSE Saved([boxes EXCEPT ![i] = SetLocation(boxes[i], location)])

update_box_location_outcome(gate, model, location, data) ==
    IF gate # 200 THEN Refused(gate)
    ELSE IF data.status # 200 THEN Refused(data.status)
    ELSE update_box_location_found(data.boxes,
                                   FirstWithModel(data.boxes, model, 1),
                                   location)

\* field.replace('_', '-') on the field names of the requests
yaml_field(field) ==
    CASE field = "box_price" -> "box-price"
      [] field = "basic_materials" -> "basic-materials"
      [] field = "basic_services" -> "basic-services"
      [] field = "standard_materials" -> "standard-materials"
      [] field = "standard_services" -> "standard-services"
      [] field = "fragile_materials" -> "fragile-materials"
      [] field = "fragile_services" -> "fragile-services"
      [] field = "custom_materials" -> "custom-materials"
      [] field = "custom_services" -> "custom-services"
      [] OTHER -> field

\* the loop over price_changes.items(): the prices after it; ok is FALSE
\* when a price was refused
RECURSIVE ApplyPriceChanges(_, _, _)
ApplyPriceChanges(prices, items, i) ==
    IF i > Len(items) THEN [ok |-> TRUE, prices |-> prices]
    ELSE IF ~PriceAccepted(items[i].new_price)
    THEN [ok |-> FALSE, prices |-> prices]
    ELSE ApplyPriceChanges(
             (yaml_field(items[i].field) :> items[i].new_price) @@ prices,
             items, i + 1)

\* the itemized prices of the box, the nine zeros when it has none
PricesOf(box) ==
    IF "itemized-prices" \in DOMAIN box THEN box["itemized-prices"].fields
    ELSE ZeroPrices

\* the box with its changed prices, and with its model if it had none
BoxWithPrices(box, prices) ==
    ("itemized-prices" :> PyDict(prices)) @@ box @@ ("model" :> box_model(box))

\* the loop over data["boxes"]: the boxes after it; ok is FALSE when a
\* price was refused
RECURSIVE UpdatePrices(_, _, _)
PricesApplied(boxes, changes, i, applied) ==
    IF ~applied.ok THEN [ok |-> FALSE, boxes |-> boxes]
    ELSE UpdatePrices([boxes EXCEPT ![i] = BoxWithPrices(boxes[i], applied.prices)],
                      changes, i + 1)

UpdatePrices(boxes, changes, i) ==
    IF i > Len(boxes) THEN [ok |-> TRUE, boxes |-> boxes]
    ELSE IF box_model(boxes[i]).s \notin DOMAIN changes
    THEN UpdatePrices(boxes, changes, i + 1)
    ELSE PricesApplied(boxes, changes, i,
                       ApplyPriceChanges(PricesOf(boxes[i]),
                                         changes[box_model(boxes[i]).s], 1))

\* a handler that saves what the loops had changed before the refusal
update_itemized_prices_updated_Saving(updated) ==
    IF ~updated.ok THEN [status_code |-> 400, save |-> TRUE, boxes |-> updated.boxes]
    ELSE Saved(updated.boxes)

\* update_itemized_prices, once the loops are through
update_itemized_prices_updated(updated) ==
    IF ~updated.ok THEN Refused(400) ELSE Saved(updated.boxes)

update_itemized_prices_outcome(gate, update_data, data) ==
    IF gate # 200 THEN Refused(gate)
    ELSE IF CsrfRefused(update_data.csrf_token) THEN Refused(403)
    ELSE IF data.status # 200 THEN Refused(data.status)
    ELSE update_itemized_prices_updated(
             UpdatePrices(data.boxes, update_data.changes, 1))

\* a location change that carries coordinates
HasCoords(location) ==
    /\ location.t = "dict"
    /\ "coords" \in DOMAIN location.fields
    /\ Truthy(location.fields.coords)

coords_being_updated(changes) ==
    {changes[m].fields.coords : m \in {k \in DOMAIN changes : HasCoords(changes[k])}}

\* equality of tuple(coords)
SameCoords(a, b) ==
    /\ Len(a.items) = Len(b.items)
    /\ \A i \in 1..Len(a.items) : NumEq(a.items[i], b.items[i])

\* second pass: the location of a box at updated coordinates is deleted
ClearedAt(box, updated) ==
    IF /\ "location" \in DOMAIN box
       /\ box.location.t = "dict"
       /\ "coords" \in DOMAIN box.location.fields
       /\ \E c \in updated : SameCoords(box.location.fields.coords, c)
    THEN WithoutField(box, "location")
    ELSE box

\* third pass: the location of a box named in the changes is set or deleted
Relocated(box, changes) ==
    IF box_model(box).s \notin DOMAIN changes THEN box
    ELSE IF HasCoords(changes[box_model(box).s])
    THEN WithField(box, "location",
                   PyDict([coords |-> changes[box_model(box).s].fields.coords]))
    ELSE WithoutField(box, "location")

\* the boxes after the passes of update_locations
LocationsUpdated(boxes, changes, updated) ==
    [i \in 1..Len(boxes) |-> Relocated(ClearedAt(boxes[i], updated), changes)]

update_locations_outcome(gate, update_data, data) ==
    IF gate # 200 THEN Refused(gate)
    ELSE IF CsrfRefused(update_data.csrf_token) THEN Refused(403)
    ELSE IF data.status # 200 THEN Refused(data.status)
    ELSE Saved(LocationsUpdated(data.boxes, update_data.changes,
                                coords_being_updated(update_data.changes)))

\* find_box_by_model: the index of the box, 0 for (None, None)
RECURSIVE find_box_by_model(_, _, _)
find_box_by_model(boxes, model, i) ==
    IF i > Len(boxes) THEN 0
    ELSE IF ModelOrEmpty(boxes[i]) = PyText(model) THEN i
    ELSE find_box_by_model(boxes, model, i + 1)

\* box['MPOS_mapping'] = update['mapping'] for a mapping update, and
\* box['itemized-prices'].update(update['prices'])
UpdatedBox(box, update, with_mapping) ==
    (IF with_mapping THEN "MPOS_mapping" :> PyDict(update.mapping) ELSE NoFields)
    @@ ("itemized-prices" :>
            PyDict(update.prices
                   @@ (IF "itemized-prices" \in DOMAIN box
                       THEN box["itemized-prices"].fields ELSE EmptyDict)))
    @@ box

\* one of the three loops of apply_import_updates
RECURSIVE ApplyUpdates(_, _, _, _)
ApplyFound(boxes, updates, i, with_mapping, idx) ==
    ApplyUpdates(IF idx = 0 THEN boxes
                 ELSE [boxes EXCEPT ![idx] =
                          UpdatedBox(boxes[idx], updates[i], with_mapping)],
                 updates, i + 1, with_mapping)

ApplyUpdates(boxes, updates, i, with_mapping) ==
    IF i > Len(updates) THEN boxes
    ELSE ApplyFound(boxes, updates, i, with_mapping,
                    find_box_by_model(boxes, updates[i].model, 1))

FoundCount(boxes, updates) ==
    Cardinality({i \in 1..Len(updates) :
                    find_box_by_model(boxes, updates[i].model, 1) # 0})

updated_count(boxes, updates) ==
    FoundCount(boxes, updates.perfect_updates)
    + FoundCount(boxes, updates.approved_mappings)
    + FoundCount(boxes, updates.manual_mappings)

\* apply_import_updates: the YAML is saved if updated_count > 0
apply_import_updates(boxes, updates) ==
    IF updated_count(boxes, updates) = 0 THEN Served
    ELSE Saved(ApplyUpdates(
                   ApplyUpdates(
                       ApplyUpdates(boxes, updates.perfect_updates, 1, FALSE),
                       updates.approved_mappings, 1, TRUE),
                   updates.manual_mappings, 1, TRUE))

\* apply_import
apply_import_outcome(gate, updates, data) ==
    IF gate # 200 THEN Refused(gate)
    ELSE IF data.status # 200 THEN Refused(data.status)
    ELSE apply_import_updates(data.boxes, updates)

\* ------------------------------------------------------------------------
\* Requests sent to the API
\* ------------------------------------------------------------------------
Pins == {"111111", "222222"}
Emails == {"admin1@x", "admin2@x"}
Codes == {"123456"}

\* the tokens of the requests; one that has no row stands for a request
\* without credentials or with an unknown token
RequestTokens == Tokens

CreateBody(model) ==
    [model |-> model,
     dimensions |-> <<PyFloat(10, 0), PyFloat(10, 0), PyFloat(10, 0)>>,
     from_library |-> FALSE, location |-> PyNone]

\* bodies of create_box, one of them refused by the request model
CreateBodies ==
    {CreateBody(<<"A">>), CreateBody(<<"B">>), CreateBody(<<"-", "-">>)}

BatchBodies ==
    UNION {[1..n -> {CreateBody(<<"A">>), CreateBody(<<"B">>)}] : n \in 1..MaxBatch}

PathModels == {<<"A">>, <<"Z">>}

CsrfTokens == {<<>>, [i \in 1..10 |-> "x"]}

PriceChange(field, new_price) == [field |-> field, new_price |-> new_price]

PriceUpdates ==
    [changes : {<<"A">> :> <<PriceChange("box_price", PyFloat(5, 0))>>,
                <<"A">> :> <<PriceChange("box_price", PyFloat(5, 0)),
                             PriceChange("basic_materials", PyFloat(-1, 0))>>},
     csrf_token : CsrfTokens]

LocationBodies == {PyNone, Coords(PyInt(5), PyInt(1))}

LocationUpdates ==
    [changes : {<<"A">> :> Coords(PyInt(5), PyInt(1)), <<"A">> :> PyNone},
     csrf_token : CsrfTokens]

ImportUpdates ==
    {[perfect_updates |->
          <<[model |-> <<"A">>, prices |-> ("box-price" :> PyFloat(5, 0))]>>,
      approved_mappings |-> <<>>, manual_mappings |-> <<>>],
     [perfect_updates |-> <<>>,
      approved_mappings |->
          <<[model |-> <<"B">>, mapping |-> ("box" :> PyInt(22)),
             prices |-> EmptyDict]>>,
      manual_mappings |-> <<>>],
     [perfect_updates |-> <<>>, approved_mappings |-> <<>>,
      manual_mappings |->
          <<[model |-> <<"Z">>, mapping |-> ("box" :> PyInt(22)),
             prices |-> EmptyDict]>>]}

\* ------------------------------------------------------------------------
\* The Excel upload operations.  Each one checks the file name, streams
\* the upload to a temporary file in chunks while it counts the bytes,
\* opens the temporary file with load_workbook and reads the rows of the
\* active sheet; the try block ends in an except clause (the import, the
\* digest and the matching analysis) or in a finally clause (the box
\* discovery).
\* ------------------------------------------------------------------------
MAX_FILE_SIZE == 512 * 1024
chunk_size == 8192

EndsWith(s, suffix) ==
    /\ Len(s) >= Len(suffix)
    /\ SubSeq(s, Len(s) - Len(suffix) + 1, Len(s)) = suffix

T_xlsx == <<".", "x", "l", "s", "x">>
T_xls == <<".", "x", "l", "s">>

\* file.filename.endswith(('.xlsx', '.xls'))
IsExcelName(filename) == EndsWith(filename, T_xlsx) \/ EndsWith(filename, T_xls)

\* len(chunk) of chunk = await file.read(chunk_size)
ChunkLen(size, position) ==
    IF size - position < chunk_size THEN size - position ELSE chunk_size

\* total_size when the while loop is left: by break at the end of the
\* file, or by the raise as soon as it exceeds MAX_FILE_SIZE
RECURSIVE StreamedSize(_, _)
StreamedSize(size, total_size) ==
    IF ChunkLen(size, total_size) = 0 THEN total_size
    ELSE IF total_size + ChunkLen(size, total_size) > MAX_FILE_SIZE
    THEN total_size + ChunkLen(size, total_size)
    ELSE StreamedSize(size, total_size + ChunkLen(size, total_size))

\* An exception on its way out of the operation: the status it carries (an
\* HTTPException its own, any other exception 500), whether it was raised
\* inside the try block, and whether the temporary file still exists.
Raise(status_code, in_try, temp_file) ==
    [raised |-> TRUE, status_code |-> status_code, in_try |-> in_try,
     temp_file |-> temp_file]

\* the try block was left without an exception
NoRaise ==
    [raised |-> FALSE, status_code |-> 200, in_try |-> TRUE, temp_file |-> TRUE]

\* the operation up to and including load_workbook
BeforeRows(file) ==
    IF ~IsExcelName(file.filename) THEN Raise(400, FALSE, FALSE)
    ELSE IF StreamedSize(file.size, 0) > MAX_FILE_SIZE
    THEN Raise(400, TRUE, FALSE)     \* temp_file.close(); os.unlink(...); raise
    ELSE IF ~file.workbook.readable THEN Raise(500, TRUE, TRUE)
    ELSE NoRaise

\* except Exception as e: unlink the file if it exists, then
\* raise HTTPException(status_code=500, ...)
ExceptClause(exit) ==
    IF exit.raised /\ exit.in_try THEN 500 ELSE exit.status_code

\* finally: os.unlink(temp_file.name), FileNotFoundError when the file is gone
FinallyClause(exit) ==
    IF exit.in_try /\ ~exit.temp_file THEN 500 ELSE exit.status_code

\* whether load_workbook was reached and opened the file
Parsed(file) == ~BeforeRows(file).raised

\* rows_data: the rows of the sheet whose first cell (Item) is not None
HasFirstCell(row) == row.Item # PyNone
ReadRows(workbook) == SelectSeq(workbook.rows, HasFirstCell)

\* a box of the loaded store data as the analysis reads it
AnalysedBox(box) ==
    [f \in DOMAIN box \cap {"type", "model", "dimensions", "itemized-prices",
                            "MPOS_mapping"} |->
        CASE f = "type" -> box[f].s
          [] f = "model" -> box[f].s
          [] f = "dimensions" -> box[f].items
          [] f = "itemized-prices" -> box[f].fields
          [] OTHER -> IF box[f] = PyNone THEN NoFields ELSE box[f].fields]

AnalysedBoxes(boxes) == [i \in 1..Len(boxes) |-> AnalysedBox(boxes[i])]

\* what an operation answers: its status, whether the workbook was
\* opened, whether the store file is saved and with which boxes, and the
\* returned value
Answer(status_code, parsed, save, boxes, body) ==
    [status_code |-> status_code, parsed |-> parsed, save |-> save,
     boxes |-> boxes, body |-> body]

NoBody == [status |-> 0]

\* analyze_import_for_matching(store_id, file, store_data)
AnalysisExit(file, analysed) ==
    IF BeforeRows(file).raised THEN BeforeRows(file)
    ELSE IF analysed.status # 200 THEN Raise(500, TRUE, TRUE)
    ELSE NoRaise

\* analyze_excel_structure(file): the summary of the digest
Digest(file) ==
    [status |-> 200, filename |-> file.filename, sheets |-> 1,
     total_rows |-> Len(file.workbook.rows)]

analyze_excel_answer(file) ==
    Answer(ExceptClause(BeforeRows(file)), Parsed(file), FALSE, <<>>,
           IF BeforeRows(file).raised THEN NoBody ELSE Digest(file))

\* import_prices_from_excel: box_map, model -> index of the last box of
\* that model
box_map_key(box) ==
    IF "model" \in DOMAIN box THEN PyStr(box.model)
    ELSE T_Unknown \o <<"-">> \o FormatNat(Len(box.dimensions.items))

box_map(boxes, model) ==
    IF \E i \in 1..Len(boxes) : box_map_key(boxes[i]) = model
    THEN CHOOSE i \in 1..Len(boxes) :
             /\ box_map_key(boxes[i]) = model
             /\ \A j \in 1..Len(boxes) : box_map_key(boxes[j]) = model => j <= i
    ELSE 0

\* field_map, in the order of the dict
field_map ==
    <<[header |-> "Box Price", field |-> "box-price"],
      [header |-> "Standard Materials", field |-> "standard-materials"],
      [header |-> "Standard Services", field |-> "standard-services"],
      [header |-> "Fragile Materials", field |-> "fragile-materials"],
      [header |-> "Fragile Services", field |-> "fragile-services"],
      [header |-> "Custom Materials", field |-> "custom-materials"],
      [header |-> "Custom Services", field |-> "custom-services"]>>

\* the loop over field_map: ip[field_name] = float(val); raised when a
\* cell holds text that is no number
RECURSIVE ImportFields(_, _, _, _)
ImportFields(prices, headers, cells, i) ==
    IF i > Len(field_map) THEN [raised |-> FALSE, prices |-> prices]
    ELSE IF field_map[i].header \notin headers
            \/ cells[field_map[i].header] = PyNone
    THEN ImportFields(prices, headers, cells, i + 1)
    ELSE IF ~IsNumber(cells[field_map[i].header])
    THEN [raised |-> TRUE, prices |-> prices]
    ELSE ImportFields((field_map[i].field :> ToFloat(cells[field_map[i].header]))
                          @@ prices,
                      headers, cells, i + 1)

\* box["itemized-prices"] of a box, {} when it has none yet
ImportPricesOf(box) ==
    IF "itemized-prices" \in DOMAIN box THEN box["itemized-prices"].fields
    ELSE EmptyDict

\* the loop over the rows: the boxes and updated_count after it
RECURSIVE ImportRows(_, _, _, _, _)
ImportRow(boxes, headers, rows, i, updated, idx, fields) ==
    ImportRows([boxes EXCEPT ![idx] =
                   ("itemized-prices" :> PyDict(fields.prices)) @@ boxes[idx]],
               headers, rows, i + 1,
               IF fields.raised THEN updated ELSE updated + 1)

ImportRows(boxes, headers, rows, i, updated) ==
    IF i > Len(rows) \/ "Model" \notin headers
    THEN [boxes |-> boxes, updated |-> updated]
    ELSE IF ~Truthy(rows[i].cells["Model"])
            \/ box_map(boxes, PyStr(rows[i].cells["Model"])) = 0
    THEN ImportRows(boxes, headers, rows, i + 1, updated)
    ELSE ImportRow(boxes, headers, rows, i, updated,
                   box_map(boxes, PyStr(rows[i].cells["Model"])),
                   ImportFields(
                       ImportPricesOf(
                           boxes[box_map(boxes, PyStr(rows[i].cells["Model"]))]),
                       headers, rows[i].cells, 1))

Imported(file, imported) ==
    Answer(200, TRUE, imported.updated > 0, imported.boxes,
           [status |-> 200, updated |-> imported.updated])

\* import_prices_from_excel(store_id, file, current_data, save_yaml_func)
import_prices_answer(file, boxes) ==
    IF BeforeRows(file).raised
    THEN Answer(ExceptClause(BeforeRows(file)), Parsed(file), FALSE, <<>>, NoBody)
    ELSE Imported(file,
                  ImportRows(boxes, file.workbook.headers, file.workbook.rows, 1, 0))

\* an analysis that also imports the prices of the sheet
analyze_import_answer_Importing(file, boxes, analysed) ==
    Answer(ExceptClause(AnalysisExit(file, analysed)), Parsed(file),
           import_prices_answer(file, boxes).save,
           import_prices_answer(file, boxes).boxes,
           IF AnalysisExit(file, analysed).raised THEN NoBody ELSE analysed)

analyze_import_answer(file, boxes, analysed) ==
    Answer(ExceptClause(AnalysisExit(file, analysed)), Parsed(file), FALSE, <<>>,
           IF AnalysisExit(file, analysed).raised THEN NoBody ELSE analysed)

\* ------------------------------------------------------------------------
\* discover_boxes_from_prices: the box rows of the sheet grouped by their
\* dimension triple sorted largest first, then bucketed against the
\* dimensions of the store boxes and the boxes of boxes/library.yml
\* ------------------------------------------------------------------------
NumLt(a, b) == NumLeq(a, b) /\ ~NumEq(a, b)

\* sorted(values, reverse=True): stable, equal values keep their order
RECURSIVE InsertDescending(_, _)
InsertDescending(sorted, v) ==
    IF Len(sorted) = 0 THEN <<v>>
    ELSE IF NumLt(sorted[1], v) THEN <<v>> \o sorted
    ELSE <<sorted[1]>> \o InsertDescending(Tail(sorted), v)

RECURSIVE SortedDescending(_)
SortedDescending(values) ==
    IF Len(values) = 0 THEN <<>>
    ELSE InsertDescending(SortedDescending(SubSeq(values, 1, Len(values) - 1)),
                          values[Len(values)])

\* str(int(d)) if d.is_integer() else str(d)
DiscoveredDimText(d) ==
    IF Normalize(d.m, d.e)[2] >= 0 THEN FormatNat(Trunc(d)) ELSE FormatFloat(d)

\* dims of a row: the three matched tokens as floats, largest first
RowDims(match) ==
    SortedDescending([i \in 1..3 |-> FloatOfToken(match.groups[i])])

\* dims_str of a row
RowDimsStr(dims) ==
    JoinTexts([i \in 1..3 |-> DiscoveredDimText(dims[i])], <<"x">>)

\* dims and dims_str of every product name of the sheets
NameDims ==
    [name \in SheetNames |->
        IF NameInfo[name].match = NoMatch
        THEN [dims |-> <<>>, dims_str |-> <<>>]
        ELSE [dims |-> RowDims(NameInfo[name].match),
              dims_str |-> RowDimsStr(RowDims(NameInfo[name].match))]]

\* a row that counts: its name holds a dimension triple and is a box
IsBoxRow(row) == RowMatch(row) # NoMatch /\ RowCategory(row) = "box"

BoxRows(rows) == SelectSeq(rows, IsBoxRow)

\* the keys of discovered_boxes in the order of their insertion
RECURSIVE DiscoveredKeys(_, _)
DiscoveredKeys(box_rows, keys) ==
    IF Len(box_rows) = 0 THEN keys
    ELSE DiscoveredKeys(
             Tail(box_rows),
             IF \E k \in 1..Len(keys) : keys[k] = NameDims[box_rows[1].name].dims_str
             THEN keys
             ELSE Append(keys, NameDims[box_rows[1].name].dims_str))

\* discovered_boxes[dims_str] once all rows are read (avg_price is the
\* mean of prices, None when prices is empty)
DiscoveredInfo(box_rows, dims_str) ==
    LET InGroup(row) == NameDims[row.name].dims_str = dims_str
        Paid(row) == RowPrice(row).m > 0
    IN [dimensions |-> NameDims[SelectSeq(box_rows, InGroup)[1].name].dims,
        dimensions_str |-> dims_str,
        count |-> Len(SelectSeq(box_rows, InGroup)),
        models |-> [i \in 1..Len(SelectSeq(box_rows, InGroup)) |->
                       SelectSeq(box_rows, InGroup)[i].name],
        prices |-> [i \in 1..Len(SelectSeq(SelectSeq(box_rows, InGroup), Paid)) |->
                       RowPrice(SelectSeq(SelectSeq(box_rows, InGroup), Paid)[i])]]

\* existing_dimensions: the dimensions of each store box, largest first,
\* joined by "x" as str() writes them
ExistingDimStr(box) ==
    JoinTexts([i \in 1..3 |-> PyStr(SortedDescending(box.dimensions.items)[i])],
              <<"x">>)

existing_dimensions(boxes) == {ExistingDimStr(boxes[i]) : i \in 1..Len(boxes)}

\* BoxLibrary(): the boxes of boxes/library.yml, none when the file is
\* missing or cannot be loaded
LoadedLibrary(file) == IF file.exists THEN file.boxes ELSE <<>>

\* box_dims == dims_sorted, an equality of lists of numbers
SameDims(a, b) == \A i \in 1..3 : NumEq(a[i], b[i])

\* a lookup that compares the dimensions in the order of the file
find_all_by_dimensions_Unsorted(library_boxes, dimensions) ==
    LET Matches(box) == SameDims(box.dimensions, SortedDescending(dimensions))
    IN SelectSeq(library_boxes, Matches)

\* BoxLibrary.find_all_by_dimensions
find_all_by_dimensions(library_boxes, dimensions) ==
    LET Matches(box) ==
            SameDims(SortedDescending(box.dimensions),
                     SortedDescending(dimensions))
    IN SelectSeq(library_boxes, Matches)

\* the loop over discovered_boxes.items(): the four result lists
RECURSIVE Bucketed(_, _, _, _, _)
Bucketed(infos, i, existing, library_boxes, results) ==
    IF i > Len(infos) THEN results
    ELSE IF infos[i].dimensions_str \in existing
    THEN Bucketed(infos, i + 1, existing, library_boxes,
                  [results EXCEPT !.already_in_store = Append(@, infos[i])])
    ELSE IF Len(find_all_by_dimensions(library_boxes, infos[i].dimensions)) > 0
    THEN Bucketed(infos, i + 1, existing, library_boxes,
                  [results EXCEPT
                      !.discovered_dimensions = Append(@, infos[i]),
                      !.library_matches =
                          Append(@, [discovered |-> infos[i],
                                     library_boxes |->
                                         find_all_by_dimensions(
                                             library_boxes, infos[i].dimensions)])])
    ELSE Bucketed(infos, i + 1, existing, library_boxes,
                  [results EXCEPT
                      !.discovered_dimensions = Append(@, infos[i]),
                      !.unmatched_dimensions = Append(@, infos[i])])

NoResults ==
    [discovered_dimensions |-> <<>>, library_matches |-> <<>>,
     unmatched_dimensions |-> <<>>, already_in_store |-> <<>>]

\* results with results['summary']
WithSummary(results, total_boxes_found) ==
    [status |-> 200,
     discovered_dimensions |-> results.discovered_dimensions,
     library_matches |-> results.library_matches,
     unmatched_dimensions |-> results.unmatched_dimensions,
     already_in_store |-> results.already_in_store,
     summary |-> [total_boxes_found |-> total_boxes_found,
                  already_in_store |-> Len(results.already_in_store),
                  new_dimensions |-> Len(results.discovered_dimensions),
                  exact_matches |-> Len(results.library_matches),
                  unmatched |-> Len(results.unmatched_dimensions)]]

DiscoverGroups(box_rows, keys, boxes, library_boxes) ==
    WithSummary(Bucketed([k \in 1..Len(keys) |-> DiscoveredInfo(box_rows, keys[k])],
                         1, existing_dimensions(boxes), library_boxes, NoResults),
                Len(keys))

\* the value returned for the rows read from the sheet, or the
\* ValueError of float() on a price cell that holds text
DiscoverResult(rows, boxes, library_boxes) ==
    IF \E i \in 1..Len(rows) : IsBoxRow(rows[i]) /\ PriceRaises(rows[i])
    THEN [status |-> 500]
    ELSE DiscoverGroups(BoxRows(rows), DiscoveredKeys(BoxRows(rows), <<>>),
                        boxes, library_boxes)

\* discover_boxes_from_prices(file, store_data)
DiscoveryExit(file, discovered) ==
    IF BeforeRows(file).raised THEN BeforeRows(file)
    ELSE IF discovered.status # 200 THEN Raise(500, TRUE, TRUE)
    ELSE NoRaise

discover_boxes_answer(file, discovered) ==
    Answer(FinallyClause(DiscoveryExit(file, discovered)), Parsed(file), FALSE, <<>>,
           IF DiscoveryExit(file, discovered).raised THEN NoBody ELSE discovered)

\* ------------------------------------------------------------------------
\* Uploads, store lists and library files the upload operations are
\* exercised on
\* ------------------------------------------------------------------------
T_p_xlsx == <<"p", ".", "x", "l", "s", "x">>
T_p_xls == <<"p", ".", "x", "l", "s">>
T_p_csv == <<"p", ".", "c", "s", "v">>
T_p_XLSX == <<"p", ".", "X", "L", "S", "X">>

UploadNames == {T_p_xlsx, T_p_xls, T_p_csv, T_p_XLSX}

\* a small file, one of exactly 512KB, and one byte more
UploadSizes == {20000, MAX_FILE_SIZE, MAX_FILE_SIZE + 1}

\* bytes that load_workbook cannot open
Unreadable == [readable |-> FALSE, headers |-> {}, rows |-> <<>>]

Workbook(headers, rows) == [readable |-> TRUE, headers |-> headers, rows |-> rows]

ItemHeaders == {"Item", "Product name", "Price"}
PriceHeaders == ItemHeaders \cup {"Model", "Box Price", "Standard Materials"}

NoCells == [h \in {} |-> PyNone]
ItemRow(row) == row @@ [cells |-> NoCells]
PriceRow(row, model, box_price, standard_materials) ==
    row @@ [cells |-> [h \in {"Model", "Box Price", "Standard Materials"} |->
                          CASE h = "Model" -> model
                            [] h = "Box Price" -> box_price
                            [] OTHER -> standard_materials]]

\* the first two rows of the price sheet of the 10x10x10 box
ItemBook ==
    Workbook(ItemHeaders, <<ItemRow(BaseSheet[1]), ItemRow(BaseSheet[2])>>)

\* the whole sheet, closed by a row without item id
FullBook ==
    Workbook(ItemHeaders,
             [i \in 1..Len(BaseSheet) |-> ItemRow(BaseSheet[i])]
             \o <<ItemRow(SheetRow(PyNone, <<W_dims12, W_Box>>, PyInt(9)))>>)

\* a sheet whose price cell holds text in a row that counts
TextPriceBook ==
    Workbook(ItemHeaders,
             <<ItemRow(SheetRow(PyInt(23), <<W_dims12, W_Box>>, PyText(T_na)))>>)

\* a sheet that also has the columns read by import_prices_from_excel
PriceBook ==
    Workbook(PriceHeaders,
             <<PriceRow(BaseSheet[2], PyText(<<"A">>), PyFloat(75, -1), PyNone),
               PriceRow(BaseSheet[1], PyText(<<"Z">>), PyInt(1), PyInt(1)),
               PriceRow(BaseSheet[3], PyNone, PyInt(1), PyInt(1)),
               PriceRow(BaseSheet[4], PyText(<<"B">>), PyInt(3), PyText(T_na))>>)

Workbooks == {ItemBook, FullBook, TextPriceBook, PriceBook, Unreadable}

Upload(filename, size, workbook) ==
    [filename |-> filename, size |-> size, workbook |-> workbook]

\* every workbook in a small .xlsx file, and the item sheet under every
\* name and size
Uploads ==
    {Upload(T_p_xlsx, 20000, w) : w \in Workbooks}
    \cup {Upload(n, s, ItemBook) : n \in UploadNames, s \in UploadSizes}

UploadBox(model, dimensions) ==
    NewBox([model |-> model, dimensions |-> dimensions, from_library |-> FALSE,
            location |-> PyNone])

F10 == <<PyFloat(10, 0), PyFloat(10, 0), PyFloat(10, 0)>>
F109 == <<PyFloat(10, 0), PyFloat(109, -1), PyFloat(10, 0)>>

UploadStoreLists ==
    {<<>>,
     <<UploadBox(<<"A">>, F10)>>,
     <<UploadBox(<<"A">>, F10), UploadBox(<<"B">>, F109)>>}

\* boxes/library.yml: missing, or a hand-written list of boxes
NoLibraryFile == [exists |-> FALSE, version |-> 0, boxes |-> <<>>]

LibraryFile(version, boxes) ==
    [exists |-> TRUE, version |-> version, boxes |-> boxes]

LibraryBox(dimensions) == [dimensions |-> dimensions]

LibraryFiles ==
    {NoLibraryFile,
     LibraryFile(1, <<LibraryBox(D12), LibraryBox(D105)>>),
     LibraryFile(1, <<LibraryBox(F10),
                      LibraryBox(<<PyInt(10), PyInt(10), PyFloat(109, -1)>>),
                      LibraryBox(D12),
                      LibraryBox(<<PyInt(12), PyFloat(120, -1), PyInt(12)>>)>>)}

DiscoverSheets == UNION {[1..n -> DiscoverRows] : n \in 0..MaxSheetRows}

\* store boxes as load_store_yaml returns them from a file written by
\* save_store_yaml
DiscoverStoreLists ==
    {LoadFile(SaveFile("2", boxes)).boxes : boxes \in UploadStoreLists}

\* ------------------------------------------------------------------------
\* The sessions table with its expiry, lib/auth_manager.py, and the
\* dependencies of lib/auth_middleware.py and routers/superadmin.py.
\* Times are whole hours; a timestamp of the table is compared with
\* CURRENT_TIMESTAMP as SQLite compares them, as naive values.
\* ------------------------------------------------------------------------
\* USER_SESSION_HOURS=3 and ADMIN_SESSION_HOURS=2 in the environment, the
\* default of SUPERADMIN_SESSION_HOURS
SessionHours(auth_level) ==
    IF auth_level = "user" THEN 3
    ELSE IF auth_level = "superadmin" THEN 1
    ELSE 2

\* datetime.now(): the naive local time of the server
LocalNow(utc_now, offset) == utc_now + offset

NoRow == [store_id |-> "", auth_level |-> "", expires_at |-> 0]

\* DELETE FROM sessions WHERE expires_at < CURRENT_TIMESTAMP
WithoutExpired(rows, utc_now) ==
    [t \in DOMAIN rows |->
        IF rows[t] # NoRow /\ rows[t].expires_at < utc_now THEN NoRow ELSE rows[t]]

\* create_session(store_id, auth_level, hours): the table afterwards, with
\* the new token
CreateSession(rows, token, store_id, auth_level, hours, utc_now, offset) ==
    [WithoutExpired(rows, utc_now) EXCEPT
        ![token] = [store_id |-> store_id, auth_level |-> auth_level,
                    expires_at |-> LocalNow(utc_now, offset) + hours]]

\* verify_session(token) and get_session_info(token): WHERE token = ? AND
\* expires_at > CURRENT_TIMESTAMP
VerifySession(rows, token, utc_now) ==
    IF token \in DOMAIN rows /\ rows[token] # NoRow /\ rows[token].expires_at > utc_now
    THEN [store_id |-> rows[token].store_id, auth_level |-> rows[token].auth_level]
    ELSE NoSession

\* delete_session(token)
DeleteSession(rows, token) ==
    IF token \in DOMAIN rows THEN [rows EXCEPT ![token] = NoRow] ELSE rows

\* _get_current_auth_impl: 401 without a valid session, 403 for a session
\* of a store that is not active unless it is a superadmin's
CurrentAuthGate(auth, status) ==
    IF auth = NoSession THEN 401
    ELSE IF auth.auth_level # "superadmin"
            /\ auth.store_id \in DOMAIN status
            /\ status[auth.store_id] # "active" THEN 403
    ELSE 200

\* get_current_store: 401 without a valid session
CurrentStoreGate(auth) == IF auth = NoSession THEN 401 ELSE 200

\* require_superadmin: 401 without credentials, 403 without a valid
\* session of a superadmin
SuperadminGate(token, auth) ==
    IF token = 0 THEN 401
    ELSE IF auth = NoSession \/ auth.auth_level # "superadmin" THEN 403
    ELSE 200

\* the superadmins table: one account, with TOTP enabled
superadmins ==
    [username \in {"root"} |->
        [password |-> "secret", totp_enabled |-> TRUE, totp_secret |-> "seed"]]

\* superadmin_login: 401 for an unknown account or a wrong password
SuperadminLoginStatus(username, password) ==
    IF username \notin DOMAIN superadmins THEN 401
    ELSE IF superadmins[username].password # password THEN 401
    ELSE 200

\* superadmin_login: the answer is requires_totp, without a token
RequiresTotp(username, password) ==
    /\ SuperadminLoginStatus(username, password) = 200
    /\ superadmins[username].totp_enabled

\* superadmin_totp_verify: totp_ok is pyotp's verify of the request's code
\* against the secret of the account
TotpVerifyStatus(username, totp_ok) ==
    IF username \notin DOMAIN superadmins THEN 401
    ELSE IF ~superadmins[username].totp_enabled
            \/ superadmins[username].totp_secret = "" THEN 400
    ELSE IF ~totp_ok THEN 401
    ELSE 200

\* ------------------------------------------------------------------------
\* The state of each part while another part runs
\* ------------------------------------------------------------------------
IdleCategorize ==
    /\ product_name = <<>>
    /\ category = Pending

IdleImport ==
    /\ rows_data = <<>>
    /\ store_data = <<>>
    /\ analysis = [status |-> 0]

NotValidated == [raised |-> FALSE, message |-> Pending, field |-> ""]

IdleValidate ==
    /\ box_data = <<>>
    /\ validation = NotValidated

NoFile == [written |-> FALSE, blocks |-> <<>>]
NotLoaded == [status |-> 0, boxes |-> <<>>]

IdleYaml ==
    /\ yaml_store_id = ""
    /\ yaml_data = <<>>
    /\ yaml_file = NoFile
    /\ yaml_loaded = NotLoaded

NoResponse == [auth_store_id |-> "", store_id |-> "", status_code |-> 0]

IdleStore ==
    /\ stores = <<>>
    /\ sessions = <<>>
    /\ email_codes = {}
    /\ response = NoResponse

NoUpload == [filename |-> <<>>, size |-> 0, workbook |-> Unreadable]
NoUploadResult ==
    [operation |-> "", status_code |-> 0, parsed |-> FALSE, body |-> NoBody]

IdleUpload ==
    /\ upload = NoUpload
    /\ upload_result = NoUploadResult
    /\ discovery = NoBody

IdleLibrary == library_file = NoLibraryFile

\* the offset of the server's local time from UTC, in hours
UtcOffsets == {-1, 0, 1}

\* 0 stands for a request without credentials
AuthTokens == 0..MaxIssued

NoAuthResult ==
    [endpoint |-> "", token |-> 0, status_code |-> 0, auth |-> NoSession,
     store_id |-> "", was_logged_out |-> FALSE, access_token |-> 0,
     requires_totp |-> FALSE]

IdleAuth ==
    /\ clock = 0
    /\ utc_offset = 0
    /\ session_rows = [t \in 1..MaxIssued |-> NoRow]
    /\ issued = <<>>
    /\ logged_out = {}
    /\ store_status = [s \in StoreIds |-> "active"]
    /\ password_verified = {}
    /\ auth_result = NoAuthResult

\* ------------------------------------------------------------------------
\* The global box library of lib/box_library.py: get_box_library and
\* reload_box_library, run by threads one statement at a time.
\* ------------------------------------------------------------------------
Threads == 1..MaxThreads

\* _library_instance = None
NoInstance == [id |-> 0, boxes |-> <<>>, loaded_at |-> 0]

\* a check that finds nothing to do and constructs again
DoubleCheck_Skipped(instance) == TRUE

\* the second `if _library_instance is None`, made with the lock held
DoubleCheck(instance) == instance = NoInstance

\* a call: the time it started at, the time since the instance of that
\* moment was loaded, and the last reload that had returned by then
NoCall == [function |-> "", started |-> 0, elapsed |-> 0, after_reload |-> 0]

IdleSingleton ==
    /\ _library_instance = NoInstance
    /\ _library_lock = 0
    /\ pc = [t \in Threads |-> "idle"]
    /\ call = [t \in Threads |-> NoCall]
    /\ returned = [t \in Threads |-> NoInstance]
    /\ constructed = 0
    /\ reloads = 0
    /\ reloaded = 0

\* ------------------------------------------------------------------------
\* get_dimensions_from_name
\* ------------------------------------------------------------------------
\* float(match.group(1)), float(match.group(2)), float(match.group(3)) of
\* the first match, or None
get_dimensions_from_name(name) ==
    LET match == DimSearch(name)
    IN IF match = NoMatch THEN PyNone
       ELSE [t |-> "tuple", m |-> 0, e |-> 0,
             s |-> [i \in 1..3 |-> FloatOfToken(match.groups[i])]]

\* the characters of the box names
NameChars == {"1", ".", "x", "X", " "}

BoxNames == UNION {[1..n -> NameChars] : n \in 0..MaxNameLen}

\* get_dimensions_from_name has not been called
NotExtracted == [t |-> "pending", m |-> 0, e |-> 0, s |-> <<>>]

IdleDimensions ==
    /\ box_name = <<>>
    /\ extracted = NotExtracted

\* ------------------------------------------------------------------------
\* lib/rate_limiter.py and lib/rate_limit_dedup.py, for one client address
\* and one endpoint.  Times are in seconds; a credential stands for the
\* SHA-256 hash of its parts.
\* ------------------------------------------------------------------------
\* datetime('now', '-60 seconds'), datetime('now', '-1 minutes')
dedup_window == 60

\* ABSOLUTE_LIMITS["/api/auth/login"]
ABSOLUTE_LIMIT_LOGIN == 20

\* @limiter.limit("5/minute") on login
LOGIN_PER_MINUTE == 5

\* get_attempt_count(ip, endpoint, minutes=1): COUNT(DISTINCT attempt_hash)
\* of the rows younger than a minute
get_attempt_count(rows, now) ==
    Cardinality({row.attempt_hash : row \in {r \in rows : r.timestamp > now - dedup_window}})

\* DELETE FROM rate_limit_attempts WHERE timestamp < datetime('now', '-60 seconds')
CleanedAttempts(rows, now) == {r \in rows : ~(r.timestamp < now - dedup_window)}

\* the duplicate query of should_count_attempt
IsDuplicate(rows, attempt_hash, now) ==
    \E r \in rows : r.attempt_hash = attempt_hash /\ r.timestamp > now - dedup_window

\* should_count_attempt: the table after the call
should_count_attempt(rows, attempt_hash, now) ==
    IF IsDuplicate(CleanedAttempts(rows, now), attempt_hash, now)
    THEN CleanedAttempts(rows, now)
    ELSE CleanedAttempts(rows, now)
             \cup {[attempt_hash |-> attempt_hash, timestamp |-> now]}

\* check_rate_limit_with_dedup: 429 when the count has reached the limit
RateLimitStatus(rows, now, absolute_limit) ==
    IF get_attempt_count(rows, now) >= absolute_limit THEN 429 ELSE 200

\* check_rate_limit_with_dedup: the table after the call
check_rate_limit_rows(rows, attempt_hash, now, absolute_limit) ==
    IF RateLimitStatus(rows, now, absolute_limit) = 429 THEN rows
    ELSE should_count_attempt(rows, attempt_hash, now)

\* the moments of the model: every full minute
RateTimes == {t * dedup_window : t \in 0..MaxMinutes}

\* the credentials a request may carry: the first ones again, or ones
\* that no row of the table holds
RateCredentials(rows) == {1, Cardinality({r.attempt_hash : r \in rows}) + 1}

\* the sum of a function of times over some of the times
RECURSIVE SumOver(_, _)
SumOver(f, times) ==
    IF times = {} THEN 0
    ELSE f[CHOOSE t \in times : TRUE]
             + SumOver(f, times \ {CHOOSE t \in times : TRUE})

\* the slowapi counter of a key: a fixed window of one minute
SlowapiHits(hits, now) ==
    IF hits.window = now \div dedup_window THEN hits.count ELSE 0

IdleRate ==
    /\ rate_limit_attempts = {}
    /\ rate_now = 0
    /\ rate_passed = [t \in RateTimes |-> 0]
    /\ slowapi_hits = [window |-> 0, count |-> 0]
    /\ rate_status = 0

\* ------------------------------------------------------------------------
\* import_prices as the event loop runs it: the handler up to its first
\* await, and from there to its end, with other requests in between.
\* ------------------------------------------------------------------------
NoLoaded == [status |-> 0, boxes |-> <<>>]

IdleOverlap ==
    /\ import_pc = "idle"
    /\ import_data = NoLoaded
    /\ import_file = NoUpload
    /\ overlapped = {}

\* ------------------------------------------------------------------------
\* The email verification codes of lib/auth_manager.py, with the time.
\* Times are in minutes; CURRENT_TIMESTAMP is UTC and datetime.now() is
\* the local time of the server.
\* ------------------------------------------------------------------------
\* timedelta(minutes=5)
code_minutes == 5

\* the emails of the requests: the admin email of store 1 as stored, with
\* a capital letter, and another address
CodeEmails == {"admin1@x", "Admin1@x", "other@x"}

\* str.lower() on the emails of the model
EmailLower(email) == IF email = "Admin1@x" THEN "admin1@x" ELSE email

\* generate_email_code(): the codes that may come out
CodeValues == {"123456", "654321"}

\* result['admin_email'].lower() != email.lower(): the ValueError
InvalidEmail(store_id, email) ==
    EmailLower(store_auth[store_id].admin_email) # EmailLower(email)

\* UPDATE email_codes SET used = TRUE WHERE store_id = ? AND email = ?
\* AND used = FALSE
InvalidateCodes(rows, store_id, email) ==
    [i \in 1..Len(rows) |->
        IF rows[i].store_id = store_id /\ rows[i].email = email /\ ~rows[i].used
        THEN [rows[i] EXCEPT !.used = TRUE]
        ELSE rows[i]]

\* create_email_verification_code: the table after the call; expires_at
\* is local, created_at is the default CURRENT_TIMESTAMP
create_email_verification_code(rows, store_id, email, code, utc_now, offset) ==
    IF InvalidEmail(store_id, email) THEN rows
    ELSE Append(InvalidateCodes(rows, store_id, email),
                [store_id |-> store_id, email |-> email, code |-> code,
                 expires_at |-> utc_now + offset + code_minutes,
                 used |-> FALSE, created_at |-> utc_now])

\* the SELECT of verify_email_code: the ids of the rows that match
MatchingCodes(rows, store_id, email, code, utc_now) ==
    {i \in 1..Len(rows) :
        /\ rows[i].store_id = store_id
        /\ rows[i].email = email
        /\ rows[i].code = code
        /\ rows[i].expires_at > utc_now
        /\ ~rows[i].used}

\* fetchone(): the id of the row found, 0 for None
FoundCode(rows, store_id, email, code, utc_now) ==
    IF MatchingCodes(rows, store_id, email, code, utc_now) = {} THEN 0
    ELSE CHOOSE i \in MatchingCodes(rows, store_id, email, code, utc_now) :
             \A j \in MatchingCodes(rows, store_id, email, code, utc_now) : i <= j

\* UPDATE email_codes SET used = TRUE WHERE id = ?
MarkUsed(rows, id) ==
    IF id = 0 THEN rows ELSE [rows EXCEPT ![id].used = TRUE]

\* local time minus UTC, in minutes
CodeOffsets == {60 * h : h \in UtcOffsets}

NoCodeResult == [endpoint |-> "", status_code |-> 0, id |-> 0]

IdleCodes ==
    /\ code_rows = <<>>
    /\ code_now = 0
    /\ code_offset = 0
    /\ accepted = <<>>
    /\ code_result = NoCodeResult

\* the last request that writes prices, as the handler met it
NoPriceRequest == [op |-> "", admitted |-> FALSE, changes |-> <<>>, models |-> {}]

IdlePrices == price_request = NoPriceRequest

\* ------------------------------------------------------------------------
\* The floorplans of routers/floorplan.py: the files of the directory
\* floorplans/, by name.
\* ------------------------------------------------------------------------
\* 5 * 1024 * 1024
FLOORPLAN_MAX_SIZE == 5 * 1024 * 1024

allowed_types ==
    {"image/png", "image/jpeg", "image/jpg", "image/gif", "image/bmp",
     "image/tiff", "image/webp"}

T_store == <<"s", "t", "o", "r", "e">>
T_floor_png == <<"_", "f", "l", "o", "o", "r", ".", "p", "n", "g">>
T_jpg == <<".", "j", "p", "g">>

\* the characters of a store id
StoreIdText(store_id) == IF store_id = "1" THEN <<"1">> ELSE <<"2">>

\* str.startswith
startswith(s, prefix) ==
    Len(prefix) <= Len(s) /\ SubSeq(s, 1, Len(prefix)) = prefix

\* f"store{store_id}_floor.png"
FloorplanName(store_id) == T_store \o StoreIdText(store_id) \o T_floor_png

\* the files os.remove is called on
ExistingFloorplans(files, store_id) ==
    {f \in files : startswith(f, T_store \o StoreIdText(store_id))}

\* the files get_floorplan serves for the store: the current name and
\* the legacy names that the model has
FloorplansOf(files, store_id) ==
    files \cap {FloorplanName(store_id),
                T_store \o StoreIdText(store_id) \o T_jpg}

NoFloorRequest ==
    [op |-> "", store_id |-> "", content_type |-> "", size |-> 0,
     image |-> FALSE, before |-> {}]

IdleFloor ==
    /\ floorplan_files = {}
    /\ floor_request = NoFloorRequest

\* ------------------------------------------------------------------------
\* The demo store 999999: stores/store999999.yml, the custom packing
\* rules of the store in the database, and the time in minutes (UTC).
\* ------------------------------------------------------------------------
\* time_since_reset.total_seconds() > 3600, in minutes
demo_reset_minutes == 60

\* the minutes of one step of the clock: half the hour
demo_step == demo_reset_minutes \div 2

NoTimestamp == -1

\* a box of the demo store: its model, a price and a location, 0 for a
\* price or location as in the template
DemoBox(model) == [model |-> model, price |-> 0, location |-> 0]

\* stores/demo_store.yml
demo_template == [exists |-> TRUE, demo_last_reset |-> NoTimestamp,
                  boxes |-> <<DemoBox("T")>>]

NoDemoFile == [exists |-> FALSE, demo_last_reset |-> NoTimestamp, boxes |-> <<>>]

\* save_store_yaml on data loaded by load_store_yaml: name, description,
\* start-screen and the boxes are written, no other key of the data
DemoSaved(boxes) ==
    [exists |-> TRUE, demo_last_reset |-> NoTimestamp, boxes |-> boxes]

\* the checks of demo_login on stores/store999999.yml
needs_reset(file, now) ==
    IF ~file.exists THEN TRUE
    ELSE IF file.demo_last_reset = NoTimestamp THEN TRUE
    ELSE now - file.demo_last_reset > demo_reset_minutes

\* the copy of the template with the reset timestamp added
DemoReset(now) == [demo_template EXCEPT !.demo_last_reset = now]

NoDemoResult == [op |-> "", status_code |-> 0, since |-> NoTimestamp, changes |-> {}]

IdleDemo ==
    /\ demo_store = NoDemoFile
    /\ demo_rules = {}
    /\ demo_sessions = {}
    /\ demo_now = 0
    /\ demo_reset_at = NoTimestamp
    /\ demo_changes = {}
    /\ demo_result = NoDemoResult

IdleLate ==
    /\ IdleRate
    /\ IdleOverlap
    /\ IdleCodes
    /\ IdlePrices
    /\ IdleFloor
    /\ IdleDemo

IdleMore ==
    IdleUpload /\ IdleLibrary /\ IdleAuth /\ IdleSingleton /\ IdleDimensions /\ IdleLate

\* ------------------------------------------------------------------------
\* Specification of the categorisation: a name is drawn, then categorised.
\* ------------------------------------------------------------------------
InitCategorize ==
    /\ product_name \in ProductNames
    /\ category = Pending
    /\ IdleImport
    /\ IdleValidate
    /\ IdleYaml
    /\ IdleStore
    /\ IdleMore

Categorize ==
    /\ category = Pending
    /\ category' = categorize_product(product_name)
    /\ UNCHANGED <<product_name, importVars, validateVars, yamlVars, storeVars,
                   moreVars>>

NextCategorize == Categorize

SpecCategorize == InitCategorize /\ [][NextCategorize]_vars

\* ------------------------------------------------------------------------
\* Specification of the import analysis: a parsed sheet and a store list
\* are drawn, then analyze_import_for_matching runs on them.
\* ------------------------------------------------------------------------
InitImport ==
    /\ rows_data \in Sheets
    /\ store_data \in StoreLists
    /\ analysis = [status |-> 0]
    /\ IdleCategorize
    /\ IdleValidate
    /\ IdleYaml
    /\ IdleStore
    /\ IdleMore

analyze_import_for_matching ==
    /\ analysis.status = 0
    /\ analysis' = AnalyzeResult(rows_data, store_data)
    /\ UNCHANGED <<rows_data, store_data, catVars, validateVars, yamlVars,
                   storeVars, moreVars>>

NextImport == analyze_import_for_matching

SpecImport == InitImport /\ [][NextImport]_vars

\* ------------------------------------------------------------------------
\* Specification of the validation: a box is drawn, then validate_box_data
\* runs on it.
\* ------------------------------------------------------------------------
InitValidate ==
    /\ box_data \in ValidateInputs
    /\ validation = NotValidated
    /\ IdleCategorize
    /\ IdleImport
    /\ IdleYaml
    /\ IdleStore
    /\ IdleMore

validate_box_data ==
    /\ validation = NotValidated
    /\ validation' = ValidationResult(box_data)
    /\ box_data' = ValidatedBox(box_data)
    /\ UNCHANGED <<catVars, importVars, yamlVars, storeVars, moreVars>>

NextValidate == validate_box_data

SpecValidate == InitValidate /\ [][NextValidate]_vars

\* ------------------------------------------------------------------------
\* Specification of the store file: a box list is drawn, save_store_yaml
\* writes it, load_store_yaml reads it back.
\* ------------------------------------------------------------------------
InitYaml ==
    /\ yaml_store_id \in {"1", "2"}
    /\ yaml_data \in YamlBoxLists
    /\ yaml_file = NoFile
    /\ yaml_loaded = NotLoaded
    /\ IdleCategorize
    /\ IdleImport
    /\ IdleValidate
    /\ IdleStore
    /\ IdleMore

save_store_yaml ==
    /\ ~yaml_file.written
    /\ yaml_file' = SaveFile(yaml_store_id, yaml_data)
    /\ UNCHANGED <<yaml_store_id, yaml_data, yaml_loaded, catVars, importVars,
                   validateVars, storeVars, moreVars>>

load_store_yaml ==
    /\ yaml_file.written
    /\ yaml_loaded = NotLoaded
    /\ yaml_loaded' = LoadFile(yaml_file)
    /\ UNCHANGED <<yaml_store_id, yaml_data, yaml_file, catVars, importVars,
                   validateVars, storeVars, moreVars>>

NextYaml == save_store_yaml \/ load_store_yaml

SpecYaml == InitYaml /\ [][NextYaml]_vars

\* ------------------------------------------------------------------------
\* Specification of the API of the stores: sessions are opened by PIN and
\* by email code, and the endpoints under /api/store/{store_id}/ read and
\* write the store files.
\* ------------------------------------------------------------------------
InitStore ==
    /\ stores = [s \in StoreIds |-> SaveFile(s, <<>>)]
    /\ sessions = [t \in Tokens |-> NoSession]
    /\ email_codes = {}
    /\ response = NoResponse
    /\ IdleCategorize
    /\ IdleImport
    /\ IdleValidate
    /\ IdleYaml
    /\ IdleMore

otherVars == <<catVars, importVars, validateVars, yamlVars, moreVars>>

\* the boxes of all store files
TotalBoxes == Len(stores["1"].blocks) + Len(stores["2"].blocks)

\* the response of an authentication endpoint, or a refusal
Responded(status_code) ==
    response' = [auth_store_id |-> "", store_id |-> "",
                 status_code |-> status_code]

\* the response of an endpoint of the store of the path to the session auth
StoreResponse(auth, store_id, status_code) ==
    IF status_code # 200
    THEN [auth_store_id |-> "", store_id |-> "", status_code |-> status_code]
    ELSE [auth_store_id |-> auth.store_id, store_id |-> store_id,
          status_code |-> 200]

\* a handler of the store ends: save_store_yaml if it came that far
Handled(auth, store_id, outcome) ==
    /\ response' = StoreResponse(auth, store_id, outcome.status_code)
    /\ stores' = IF outcome.save
                 THEN [stores EXCEPT ![store_id] = SaveFile(store_id, outcome.boxes)]
                 ELSE stores

login ==
    \E store_id \in StoreIds, pin \in Pins :
        /\ FreeTokens # {}
        /\ IF verify_pin(store_id, pin)
           THEN /\ sessions' = create_session(store_id, "user")
                /\ Responded(200)
           ELSE /\ sessions' = sessions
                /\ Responded(401)
        /\ UNCHANGED <<stores, email_codes, otherVars>>

send_code ==
    \E store_id \in StoreIds, email \in Emails, code \in Codes :
        /\ email_codes' = CodesAfterSend(store_id, email, code)
        /\ Responded(200)
        /\ UNCHANGED <<stores, sessions, otherVars>>

verify_code ==
    \E store_id \in StoreIds, email \in Emails, code \in Codes :
        /\ FreeTokens # {}
        /\ IF verify_email_code(store_id, email, code)
           THEN /\ email_codes' = email_codes \
                       {[store_id |-> store_id, email |-> email, code |-> code]}
                /\ sessions' = create_session(store_id, "admin")
                /\ Responded(200)
           ELSE /\ UNCHANGED <<email_codes, sessions>>
                /\ Responded(401)
        /\ UNCHANGED <<stores, otherVars>>

logout ==
    \E token \in RequestTokens :
        /\ IF verify_session(token) = NoSession
           THEN /\ sessions' = sessions
                /\ Responded(401)
           ELSE /\ sessions' = delete_session(token)
                /\ Responded(200)
        /\ UNCHANGED <<stores, email_codes, otherVars>>

get_boxes ==
    \E token \in RequestTokens, store_id \in StoreIds :
        /\ Handled(verify_session(token), store_id,
                   get_boxes_outcome(StoreGate(verify_session(token), store_id),
                                     LoadFile(stores[store_id])))
        /\ UNCHANGED <<sessions, email_codes, otherVars>>

get_box_locations ==
    \E store_id \in StoreIds :
        /\ Handled(NoSession, store_id,
                   get_box_locations_outcome(LoadFile(stores[store_id])))
        /\ UNCHANGED <<sessions, email_codes, otherVars>>

create_box ==
    \E token \in RequestTokens, store_id \in StoreIds, body \in CreateBodies :
        /\ TotalBoxes < MaxStoreBoxes
        /\ Handled(verify_session(token), store_id,
                   create_box_outcome(
                       AdminGate(verify_session(token), store_id,
                                 RequestAccepted(body)),
                       body, LoadFile(stores[store_id])))
        /\ UNCHANGED <<sessions, email_codes, otherVars>>

create_boxes_batch ==
    \E token \in RequestTokens, store_id \in StoreIds, boxes \in BatchBodies :
        /\ TotalBoxes + Len(boxes) <= MaxStoreBoxes
        /\ Handled(verify_session(token), store_id,
                   create_boxes_batch_outcome(
                       AdminGate(verify_session(token), store_id,
                                 \A i \in 1..Len(boxes) : RequestAccepted(boxes[i])),
                       boxes, LoadFile(stores[store_id])))
        /\ UNCHANGED <<sessions, email_codes, otherVars>>

delete_box ==
    \E token \in RequestTokens, store_id \in StoreIds, model \in PathModels :
        /\ Handled(verify_session(token), store_id,
                   delete_box_outcome(
                       AdminGate(verify_session(token), store_id, TRUE),
                       model, LoadFile(stores[store_id])))
        /\ UNCHANGED <<sessions, email_codes, otherVars>>

update_itemized_prices ==
    \E token \in RequestTokens, store_id \in StoreIds, update_data \in PriceUpdates :
        /\ Handled(verify_session(token), store_id,
                   update_itemized_prices_outcome(
                       AdminGate(verify_session(token), store_id, TRUE),
                       update_data, LoadFile(stores[store_id])))
        /\ UNCHANGED <<sessions, email_codes, otherVars>>

update_box_location ==
    \E token \in RequestTokens, store_id \in StoreIds, model \in PathModels,
       location \in LocationBodies :
        /\ Handled(verify_session(token), store_id,
                   update_box_location_outcome(
                       AdminGate(verify_session(token), store_id, TRUE),
                       model, location, LoadFile(stores[store_id])))
        /\ UNCHANGED <<sessions, email_codes, otherVars>>

update_locations ==
    \E token \in RequestTokens, store_id \in StoreIds, update_data \in LocationUpdates :
        /\ Handled(verify_session(token), store_id,
                   update_locations_outcome(
                       SessionGate(verify_session(token), TRUE),
                       update_data, LoadFile(stores[store_id])))
        /\ UNCHANGED <<sessions, email_codes, otherVars>>

apply_import ==
    \E token \in RequestTokens, store_id \in StoreIds, updates \in ImportUpdates :
        /\ Handled(verify_session(token), store_id,
                   apply_import_outcome(
                       SessionGate(verify_session(token), TRUE),
                       updates, LoadFile(stores[store_id])))
        /\ UNCHANGED <<sessions, email_codes, otherVars>>



NextStore ==
    \/ login
    \/ send_code
    \/ verify_code
    \/ logout
    \/ get_boxes
    \/ get_box_locations
    \/ create_box
    \/ create_boxes_batch
    \/ delete_box
    \/ update_itemized_prices
    \/ update_box_location
    \/ update_locations
    \/ apply_import

SpecStore == InitStore /\ [][NextStore]_vars

\* ------------------------------------------------------------------------
\* Specification of the upload endpoints of routers/import_export.py: a
\* store file, a library file and a sessions table are drawn, then files
\* are uploaded to the import, the digest, the matching analysis and the
\* box discovery, and analysed updates are applied.
\* ------------------------------------------------------------------------
\* the sessions table is empty, or holds the session of an admin of store 1
UploadSessions ==
    {[t \in Tokens |-> NoSession],
     [t \in Tokens |->
         IF t = 1 THEN [store_id |-> "1", auth_level |-> "admin"] ELSE NoSession]}

InitUpload ==
    /\ \E boxes \in UploadStoreLists :
           stores = [s \in StoreIds |->
                        SaveFile(s, IF s = "1" THEN boxes ELSE <<>>)]
    /\ sessions \in UploadSessions
    /\ email_codes = {}
    /\ response = NoResponse
    /\ library_file = LibraryFile(1, <<LibraryBox(D12), LibraryBox(D105)>>)
    /\ upload = NoUpload
    /\ upload_result = NoUploadResult
    /\ discovery = NoBody
    /\ IdleCategorize
    /\ IdleImport
    /\ IdleValidate
    /\ IdleYaml
    /\ IdleAuth
    /\ IdleSingleton
    /\ IdleDimensions
    /\ IdleLate

\* the answer of a handler that does not come to call the operation
Unreached(status_code) == Answer(status_code, FALSE, FALSE, <<>>, NoBody)

\* the operation named was called on the file and answered
UploadResult(operation, answer) ==
    [operation |-> operation, status_code |-> answer.status_code,
     parsed |-> answer.parsed, body |-> answer.body]

\* an upload handler of a store ends
UploadHandled(auth, store_id, file, operation, answer) ==
    /\ upload' = file
    /\ Handled(auth, store_id, answer)
    /\ upload_result' = UploadResult(operation, answer)

\* analyze_import_for_matching run on the loaded store data
AnalysisAnswer(file, boxes) ==
    analyze_import_answer(file, boxes,
                          AnalyzeResult(ReadRows(file.workbook), AnalysedBoxes(boxes)))

\* discover_boxes_from_prices run on the loaded store data
DiscoveryAnswer(file, boxes) ==
    discover_boxes_answer(file,
                          DiscoverResult(ReadRows(file.workbook), boxes,
                                         LoadedLibrary(library_file)))

import_prices ==
    \E token \in RequestTokens, store_id \in StoreIds :
      \E loaded \in {LoadFile(stores[store_id])}, file \in Uploads :
        /\ UploadHandled(
               verify_session(token), store_id, file,
               IF SessionGate(verify_session(token), TRUE) = 200
                  /\ loaded.status = 200
               THEN "import_prices_from_excel" ELSE "",
               IF SessionGate(verify_session(token), TRUE) # 200
               THEN Unreached(SessionGate(verify_session(token), TRUE))
               ELSE IF loaded.status # 200
               THEN Unreached(loaded.status)
               ELSE import_prices_answer(file, loaded.boxes))
        /\ UNCHANGED <<sessions, email_codes, library_file, discovery,
                       catVars, importVars, validateVars, yamlVars, authVars,
                       singletonVars, dimVars, lateVars>>

analyze_import ==
    \E token \in RequestTokens, store_id \in StoreIds :
      \E loaded \in {LoadFile(stores[store_id])}, file \in Uploads :
        /\ UploadHandled(
               verify_session(token), store_id, file,
               IF SessionGate(verify_session(token), TRUE) = 200
                  /\ loaded.status = 200
               THEN "analyze_import_for_matching" ELSE "",
               IF SessionGate(verify_session(token), TRUE) # 200
               THEN Unreached(SessionGate(verify_session(token), TRUE))
               ELSE IF loaded.status # 200
               THEN Unreached(loaded.status)
               ELSE AnalysisAnswer(file, loaded.boxes))
        /\ UNCHANGED <<sessions, email_codes, library_file, discovery,
                       catVars, importVars, validateVars, yamlVars, authVars,
                       singletonVars, dimVars, lateVars>>

discover_boxes ==
    \E token \in RequestTokens, store_id \in StoreIds :
      \E loaded \in {LoadFile(stores[store_id])}, file \in Uploads :
        /\ UploadHandled(
               verify_session(token), store_id, file,
               IF StoreGate(verify_session(token), store_id) = 200
                  /\ loaded.status = 200
               THEN "discover_boxes_from_prices" ELSE "",
               IF StoreGate(verify_session(token), store_id) # 200
               THEN Unreached(StoreGate(verify_session(token), store_id))
               ELSE IF loaded.status # 200
               THEN Unreached(loaded.status)
               ELSE DiscoveryAnswer(file, loaded.boxes))
        /\ UNCHANGED <<sessions, email_codes, library_file, discovery,
                       catVars, importVars, validateVars, yamlVars, authVars,
                       singletonVars, dimVars, lateVars>>

\* POST /api/analyze_excel, no store in the path. Its dependency is the
\* function get_current_auth itself, which reads no credentials and returns
\* a Depends object: the handler runs for every request.
analyze_excel ==
    \E file \in Uploads :
        /\ upload' = file
        /\ upload_result' = UploadResult("analyze_excel_structure",
                                         analyze_excel_answer(file))
        /\ Responded(analyze_excel_answer(file).status_code)
        /\ UNCHANGED <<stores, sessions, email_codes, library_file, discovery,
                       catVars, importVars, validateVars, yamlVars, authVars,
                       singletonVars, dimVars, lateVars>>

NextUpload ==
    \/ import_prices
    \/ analyze_import
    \/ discover_boxes
    \/ analyze_excel

SpecUpload == InitUpload /\ [][NextUpload]_vars

\* ------------------------------------------------------------------------
\* Specification of the two steps of the matching import: files are
\* uploaded to the analysis and updates are applied, in any order.
\* ------------------------------------------------------------------------
NextAnalyze ==
    \/ analyze_import
    \/ apply_import

SpecAnalyze == InitUpload /\ [][NextAnalyze]_vars

\* ------------------------------------------------------------------------
\* Specification of the box discovery: the rows read from a sheet, the
\* boxes of a loaded store file and a library file are drawn, then
\* discover_boxes_from_prices groups and buckets them.
\* ------------------------------------------------------------------------
InitDiscover ==
    /\ rows_data \in DiscoverSheets
    /\ store_data \in DiscoverStoreLists
    /\ library_file \in LibraryFiles
    /\ discovery = NoBody
    /\ analysis = [status |-> 0]
    /\ upload = NoUpload
    /\ upload_result = NoUploadResult
    /\ IdleCategorize
    /\ IdleValidate
    /\ IdleYaml
    /\ IdleStore
    /\ IdleAuth
    /\ IdleSingleton
    /\ IdleDimensions
    /\ IdleLate

discover_boxes_from_prices ==
    /\ discovery = NoBody
    /\ discovery' = DiscoverResult(rows_data, store_data, LoadedLibrary(library_file))
    /\ UNCHANGED <<rows_data, store_data, analysis, library_file, upload,
                   upload_result, catVars, validateVars, yamlVars, storeVars,
                   authVars, singletonVars, dimVars, lateVars>>

NextDiscover == discover_boxes_from_prices

SpecDiscover == InitDiscover /\ [][NextDiscover]_vars

notAuthVars ==
    <<catVars, importVars, validateVars, yamlVars, storeVars, uploadVars, libraryVars,
      singletonVars, dimVars, lateVars>>

notSingletonVars ==
    <<catVars, importVars, validateVars, yamlVars, storeVars, uploadVars, authVars,
      dimVars, lateVars>>

notDimVars ==
    <<catVars, importVars, validateVars, yamlVars, storeVars, uploadVars, libraryVars,
      authVars, singletonVars, lateVars>>

earlyVars ==
    <<catVars, importVars, validateVars, yamlVars, storeVars, uploadVars, libraryVars,
      authVars, singletonVars, dimVars>>

rateRest == <<overlapVars, codeVars, priceVars, floorVars, demoVars>>
notRateVars == <<earlyVars, rateRest>>

overlapRest == <<rateVars, codeVars, priceVars, floorVars, demoVars>>
notOverlapVars == <<earlyVars, overlapRest>>

codeRest == <<rateVars, overlapVars, priceVars, floorVars, demoVars>>
notCodeVars == <<earlyVars, codeRest>>

priceRest == <<rateVars, overlapVars, codeVars, floorVars, demoVars>>
notPriceVars == <<earlyVars, priceRest>>

floorRest == <<rateVars, overlapVars, codeVars, priceVars, demoVars>>
notFloorVars == <<earlyVars, floorRest>>

demoRest == <<rateVars, overlapVars, codeVars, priceVars, floorVars>>
notDemoVars == <<earlyVars, demoRest>>

\* ------------------------------------------------------------------------
\* Specification of the sessions: the clock advances, stores log in and
\* out, and tokens are presented to endpoints of the stores.
\* ------------------------------------------------------------------------
InitSession ==
    /\ clock = 0
    /\ utc_offset \in UtcOffsets
    /\ session_rows = [t \in 1..MaxIssued |-> NoRow]
    /\ issued = <<>>
    /\ logged_out = {}
    /\ store_status = [s \in StoreIds |-> "active"]
    /\ password_verified = {}
    /\ auth_result = NoAuthResult
    /\ IdleCategorize
    /\ IdleImport
    /\ IdleValidate
    /\ IdleYaml
    /\ IdleStore
    /\ IdleUpload
    /\ IdleLibrary
    /\ IdleSingleton
    /\ IdleDimensions
    /\ IdleLate

\* create_session is called and returns the next token
Issued(store_id, auth_level, hours) ==
    /\ session_rows' = CreateSession(session_rows, Len(issued) + 1, store_id,
                                     auth_level, hours, clock, utc_offset)
    /\ issued' = Append(issued, [store_id |-> store_id, auth_level |-> auth_level,
                                 created |-> clock, hours |-> hours])

\* the answer to a request that presented a token
Presented(endpoint, token, status_code, auth, store_id) ==
    [endpoint |-> endpoint, token |-> token, status_code |-> status_code,
     auth |-> auth, store_id |-> store_id,
     was_logged_out |-> token \in logged_out, access_token |-> 0,
     requires_totp |-> FALSE]

\* the answer to a login request
LoggedIn(endpoint, status_code, store_id, access_token, requires_totp) ==
    [endpoint |-> endpoint, token |-> 0, status_code |-> status_code,
     auth |-> NoSession, store_id |-> store_id,
     was_logged_out |-> FALSE, access_token |-> access_token,
     requires_totp |-> requires_totp]

\* an hour passes, and the last answer with it
tick ==
    /\ clock < MaxClock
    /\ clock' = clock + 1
    /\ auth_result' = NoAuthResult
    /\ UNCHANGED <<utc_offset, session_rows, issued, logged_out, store_status,
                   password_verified, notAuthVars>>

\* POST /api/auth/login
auth_login ==
    \E store_id \in StoreIds, pin \in {store_auth[s].pin : s \in StoreIds} :
        /\ verify_pin(store_id, pin) => Len(issued) < MaxIssued
        /\ IF verify_pin(store_id, pin)
           THEN Issued(store_id, "user", SessionHours("user"))
           ELSE UNCHANGED <<session_rows, issued>>
        /\ auth_result' =
               IF verify_pin(store_id, pin)
               THEN LoggedIn("login", 200, store_id, Len(issued) + 1, FALSE)
               ELSE LoggedIn("login", 401, store_id, 0, FALSE)
        /\ UNCHANGED <<clock, utc_offset, logged_out, store_status,
                       password_verified, notAuthVars>>

\* POST /api/auth/logout
auth_logout ==
    \E token \in AuthTokens :
        /\ auth_result' =
               Presented("logout", token,
                         CurrentStoreGate(VerifySession(session_rows, token, clock)),
                         VerifySession(session_rows, token, clock), "")
        /\ session_rows' =
               IF VerifySession(session_rows, token, clock) # NoSession
               THEN DeleteSession(session_rows, token)
               ELSE session_rows
        /\ logged_out' =
               IF VerifySession(session_rows, token, clock) # NoSession
               THEN logged_out \cup {token}
               ELSE logged_out
        /\ UNCHANGED <<clock, utc_offset, issued, store_status,
                       password_verified, notAuthVars>>

\* GET /api/store/{store_id}/info, which depends on _get_current_auth_impl
get_store_info ==
    \E token \in AuthTokens, store_id \in StoreIds :
        /\ auth_result' =
               Presented("get_store_info", token,
                         IF CurrentAuthGate(VerifySession(session_rows, token, clock),
                                            store_status) # 200
                         THEN CurrentAuthGate(VerifySession(session_rows, token, clock),
                                              store_status)
                         ELSE IF VerifySession(session_rows, token, clock).store_id
                                 # store_id
                         THEN 403
                         ELSE 200,
                         VerifySession(session_rows, token, clock), store_id)
        /\ UNCHANGED <<clock, utc_offset, session_rows, issued, logged_out,
                       store_status, password_verified, notAuthVars>>

\* GET /api/store/{store_id}/export_prices, which depends on
\* get_current_store
export_prices ==
    \E token \in AuthTokens, store_id \in StoreIds :
        /\ auth_result' =
               Presented("export_prices", token,
                         CurrentStoreGate(VerifySession(session_rows, token, clock)),
                         VerifySession(session_rows, token, clock), store_id)
        /\ UNCHANGED <<clock, utc_offset, session_rows, issued, logged_out,
                       store_status, password_verified, notAuthVars>>

\* POST /api/admin/login
superadmin_login ==
    \E username \in {"root", "nobody"}, password \in {"secret", "guess"} :
        /\ (SuperadminLoginStatus(username, password) = 200
            /\ ~RequiresTotp(username, password)) => Len(issued) < MaxIssued
        /\ IF SuperadminLoginStatus(username, password) = 200
              /\ ~RequiresTotp(username, password)
           THEN Issued(username, "superadmin", SessionHours("superadmin"))
           ELSE UNCHANGED <<session_rows, issued>>
        /\ password_verified' =
               IF SuperadminLoginStatus(username, password) = 200
               THEN password_verified \cup {username}
               ELSE password_verified
        /\ auth_result' =
               LoggedIn("superadmin_login",
                        SuperadminLoginStatus(username, password), username,
                        IF SuperadminLoginStatus(username, password) = 200
                           /\ ~RequiresTotp(username, password)
                        THEN Len(issued) + 1 ELSE 0,
                        RequiresTotp(username, password))
        /\ UNCHANGED <<clock, utc_offset, logged_out, store_status, notAuthVars>>

\* POST /api/admin/login/totp
superadmin_totp_verify ==
    \E username \in {"root", "nobody"}, totp_ok \in BOOLEAN :
        /\ TotpVerifyStatus(username, totp_ok) = 200 => Len(issued) < MaxIssued
        /\ IF TotpVerifyStatus(username, totp_ok) = 200
           THEN Issued(username, "superadmin", SessionHours("superadmin"))
           ELSE UNCHANGED <<session_rows, issued>>
        /\ auth_result' =
               LoggedIn("superadmin_totp_verify",
                        TotpVerifyStatus(username, totp_ok), username,
                        IF TotpVerifyStatus(username, totp_ok) = 200
                        THEN Len(issued) + 1 ELSE 0,
                        FALSE)
        /\ UNCHANGED <<clock, utc_offset, logged_out, store_status,
                       password_verified, notAuthVars>>

\* POST /api/admin/stores/{store_id}/disable
disable_store ==
    \E token \in AuthTokens, store_id \in StoreIds :
        /\ auth_result' =
               Presented("disable_store", token,
                         SuperadminGate(token, VerifySession(session_rows, token, clock)),
                         VerifySession(session_rows, token, clock), store_id)
        /\ store_status' =
               IF SuperadminGate(token, VerifySession(session_rows, token, clock)) = 200
               THEN [store_status EXCEPT ![store_id] = "disabled"]
               ELSE store_status
        /\ UNCHANGED <<clock, utc_offset, session_rows, issued, logged_out,
                       password_verified, notAuthVars>>

\* POST /api/admin/stores/{store_id}/enable
enable_store ==
    \E token \in AuthTokens, store_id \in StoreIds :
        /\ auth_result' =
               Presented("enable_store", token,
                         SuperadminGate(token, VerifySession(session_rows, token, clock)),
                         VerifySession(session_rows, token, clock), store_id)
        /\ store_status' =
               IF SuperadminGate(token, VerifySession(session_rows, token, clock)) = 200
               THEN [store_status EXCEPT ![store_id] = "active"]
               ELSE store_status
        /\ UNCHANGED <<clock, utc_offset, session_rows, issued, logged_out,
                       password_verified, notAuthVars>>

\* the status of create_sudo_token
SudoStatus(token, auth, status) ==
    IF SuperadminGate(token, auth) # 200 THEN SuperadminGate(token, auth)
    ELSE IF status # "active" THEN 400
    ELSE 200

\* POST /api/admin/stores/{store_id}/sudo
create_sudo_token ==
    \E token \in AuthTokens, store_id \in StoreIds :
        /\ SudoStatus(token, VerifySession(session_rows, token, clock),
                      store_status[store_id]) = 200 => Len(issued) < MaxIssued
        /\ IF SudoStatus(token, VerifySession(session_rows, token, clock),
                         store_status[store_id]) = 200
           THEN Issued(store_id, "admin", 1)
           ELSE UNCHANGED <<session_rows, issued>>
        /\ auth_result' =
               [Presented("create_sudo_token", token,
                          SudoStatus(token, VerifySession(session_rows, token, clock),
                                     store_status[store_id]),
                          VerifySession(session_rows, token, clock), store_id)
                EXCEPT !.access_token =
                    IF SudoStatus(token, VerifySession(session_rows, token, clock),
                                  store_status[store_id]) = 200
                    THEN Len(issued) + 1 ELSE 0]
        /\ UNCHANGED <<clock, utc_offset, logged_out, store_status,
                       password_verified, notAuthVars>>

NextSession ==
    \/ tick
    \/ auth_login
    \/ auth_logout
    \/ get_store_info
    \/ export_prices

SpecSession == InitSession /\ [][NextSession]_vars

\* ------------------------------------------------------------------------
\* Specification of the superadmin API: within one hour, on a server
\* whose local time is UTC, stores log in, superadmins log in, disable and
\* enable stores and open sudo sessions, and tokens are presented to
\* endpoints of the stores.
\* ------------------------------------------------------------------------
InitAdmin ==
    /\ IdleAuth
    /\ IdleCategorize
    /\ IdleImport
    /\ IdleValidate
    /\ IdleYaml
    /\ IdleStore
    /\ IdleUpload
    /\ IdleLibrary
    /\ IdleSingleton
    /\ IdleDimensions
    /\ IdleLate

NextAdmin ==
    \/ auth_login
    \/ get_store_info
    \/ export_prices
    \/ superadmin_login
    \/ superadmin_totp_verify
    \/ disable_store
    \/ enable_store
    \/ create_sudo_token

SpecAdmin == InitAdmin /\ [][NextAdmin]_vars

\* ------------------------------------------------------------------------
\* Specification of the box library singleton under concurrent calls:
\* every thread calls get_box_library or reload_box_library again and
\* again, and the statements of the calls interleave.
\* ------------------------------------------------------------------------
InitSingleton ==
    /\ IdleSingleton
    /\ library_file = LibraryFile(1, <<LibraryBox(D12), LibraryBox(D105)>>)
    /\ IdleCategorize
    /\ IdleImport
    /\ IdleValidate
    /\ IdleYaml
    /\ IdleStore
    /\ IdleUpload
    /\ IdleAuth
    /\ IdleDimensions
    /\ IdleLate

\* BoxLibrary(): __init__ loads boxes/library.yml as it is now; id and
\* loaded_at record which construction it was and when
BoxLibrary(id, file, now) ==
    [id |-> id, boxes |-> LoadedLibrary(file), loaded_at |-> now]

\* a thread calls get_box_library()
get_box_library ==
    \E t \in Threads :
        /\ pc[t] = "idle"
        /\ pc' = [pc EXCEPT ![t] = "get_check"]
        /\ call' = [call EXCEPT ![t] =
                       [function |-> "get_box_library", started |-> clock,
                        elapsed |-> IF _library_instance = NoInstance THEN 0
                                    ELSE clock - _library_instance.loaded_at,
                        after_reload |-> reloaded]]
        /\ returned' = [returned EXCEPT ![t] = NoInstance]
        /\ UNCHANGED <<_library_instance, _library_lock, constructed, reloads,
                       reloaded, library_file, notSingletonVars>>

\* if _library_instance is None:
get_first_check ==
    \E t \in Threads :
        /\ pc[t] = "get_check"
        /\ pc' = [pc EXCEPT ![t] =
                     IF _library_instance = NoInstance THEN "get_lock" ELSE "get_return"]
        /\ UNCHANGED <<_library_instance, _library_lock, call, returned, constructed,
                       reloads, reloaded, library_file, notSingletonVars>>

\* with _library_lock:
get_acquire ==
    \E t \in Threads :
        /\ pc[t] = "get_lock"
        /\ _library_lock = 0
        /\ _library_lock' = t
        /\ pc' = [pc EXCEPT ![t] = "get_locked"]
        /\ UNCHANGED <<_library_instance, call, returned, constructed, reloads,
                       reloaded, library_file, notSingletonVars>>

\* if _library_instance is None: _library_instance = BoxLibrary(), and the
\* end of the with block
get_construct ==
    \E t \in Threads :
        /\ pc[t] = "get_locked"
        /\ _library_lock = t
        /\ _library_instance' =
               IF DoubleCheck(_library_instance)
               THEN BoxLibrary(constructed + 1, library_file, clock)
               ELSE _library_instance
        /\ constructed' =
               IF DoubleCheck(_library_instance) THEN constructed + 1 ELSE constructed
        /\ _library_lock' = 0
        /\ pc' = [pc EXCEPT ![t] = "get_return"]
        /\ UNCHANGED <<call, returned, reloads, reloaded, library_file,
                       notSingletonVars>>

\* return _library_instance
get_return ==
    \E t \in Threads :
        /\ pc[t] = "get_return"
        /\ returned' = [returned EXCEPT ![t] = _library_instance]
        /\ pc' = [pc EXCEPT ![t] = "idle"]
        /\ UNCHANGED <<_library_instance, _library_lock, call, constructed, reloads,
                       reloaded, library_file, notSingletonVars>>

\* a thread calls reload_box_library()
reload_box_library ==
    \E t \in Threads :
        /\ pc[t] = "idle"
        /\ reloads < MaxReloads
        /\ reloads' = reloads + 1
        /\ pc' = [pc EXCEPT ![t] = "reload_lock"]
        /\ call' = [call EXCEPT ![t] =
                       [function |-> "reload_box_library", started |-> clock,
                        elapsed |-> 0, after_reload |-> reloaded]]
        /\ returned' = [returned EXCEPT ![t] = NoInstance]
        /\ UNCHANGED <<_library_instance, _library_lock, constructed, reloaded,
                       library_file, notSingletonVars>>

\* with _library_lock:
reload_acquire ==
    \E t \in Threads :
        /\ pc[t] = "reload_lock"
        /\ _library_lock = 0
        /\ _library_lock' = t
        /\ pc' = [pc EXCEPT ![t] = "reload_locked"]
        /\ UNCHANGED <<_library_instance, call, returned, constructed, reloads,
                       reloaded, library_file, notSingletonVars>>

\* _library_instance = BoxLibrary(), and the end of the with block
reload_construct ==
    \E t \in Threads :
        /\ pc[t] = "reload_locked"
        /\ _library_lock = t
        /\ _library_instance' = BoxLibrary(constructed + 1, library_file, clock)
        /\ constructed' = constructed + 1
        /\ _library_lock' = 0
        /\ pc' = [pc EXCEPT ![t] = "reload_return"]
        /\ UNCHANGED <<call, returned, reloads, reloaded, library_file,
                       notSingletonVars>>

\* return _library_instance
reload_return ==
    \E t \in Threads :
        /\ pc[t] = "reload_return"
        /\ returned' = [returned EXCEPT ![t] = _library_instance]
        /\ reloaded' = _library_instance.id
        /\ pc' = [pc EXCEPT ![t] = "idle"]
        /\ UNCHANGED <<_library_instance, _library_lock, call, constructed, reloads,
                       library_file, notSingletonVars>>

NextSingleton ==
    \/ get_box_library
    \/ get_first_check
    \/ get_acquire
    \/ get_construct
    \/ get_return
    \/ reload_box_library
    \/ reload_acquire
    \/ reload_construct
    \/ reload_return

SpecSingleton == InitSingleton /\ [][NextSingleton]_vars

\* ------------------------------------------------------------------------
\* Specification of the box library singleton over time: time passes, the
\* library file is edited on disk, and get_box_library is called.
\* ------------------------------------------------------------------------
\* boxes/library.yml is edited: a new version with another box
write_library_file ==
    /\ library_file.version <= MaxEdits
    /\ library_file' = LibraryFile(library_file.version + 1,
                                   library_file.boxes \o <<LibraryBox(D20)>>)
    /\ UNCHANGED <<singletonVars, notSingletonVars>>

NextStale ==
    \/ get_box_library
    \/ get_first_check
    \/ get_acquire
    \/ get_construct
    \/ get_return
    \/ write_library_file
    \/ tick

SpecStale == InitSingleton /\ [][NextStale]_vars

\* ------------------------------------------------------------------------
\* Specification of the dimension extraction: a box name is drawn, then
\* get_dimensions_from_name runs on it.
\* ------------------------------------------------------------------------
InitDimensions ==
    /\ box_name \in BoxNames
    /\ extracted = NotExtracted
    /\ IdleCategorize
    /\ IdleImport
    /\ IdleValidate
    /\ IdleYaml
    /\ IdleStore
    /\ IdleUpload
    /\ IdleLibrary
    /\ IdleAuth
    /\ IdleSingleton
    /\ IdleLate

extract_dimensions ==
    /\ extracted = NotExtracted
    /\ extracted' = get_dimensions_from_name(box_name)
    /\ UNCHANGED <<box_name, notDimVars>>

NextDimensions == extract_dimensions

SpecDimensions == InitDimensions /\ [][NextDimensions]_vars

\* every part of the model before the last ones, at rest
IdleEarly ==
    /\ IdleCategorize
    /\ IdleImport
    /\ IdleValidate
    /\ IdleYaml
    /\ IdleStore
    /\ IdleUpload
    /\ IdleLibrary
    /\ IdleAuth
    /\ IdleSingleton
    /\ IdleDimensions

\* ------------------------------------------------------------------------
\* Specification of the rate limit of /api/auth/login for one client
\* address: time passes, check_rate_limit_with_dedup is called, and login
\* requests arrive through the slowapi limiter.
\* ------------------------------------------------------------------------
InitRate ==
    /\ IdleEarly
    /\ IdleLate

\* a minute passes
rate_tick ==
    /\ rate_now + dedup_window \in RateTimes
    /\ rate_now' = rate_now + dedup_window
    /\ rate_status' = 0
    /\ UNCHANGED <<rate_limit_attempts, rate_passed, slowapi_hits, notRateVars>>

\* what a call of check_rate_limit_with_dedup does to the table and the log
RateChecked(attempt_hash) ==
    /\ rate_status' = RateLimitStatus(rate_limit_attempts, rate_now, ABSOLUTE_LIMIT_LOGIN)
    /\ rate_limit_attempts' =
           check_rate_limit_rows(rate_limit_attempts, attempt_hash, rate_now,
                                 ABSOLUTE_LIMIT_LOGIN)
    /\ rate_passed' =
           IF RateLimitStatus(rate_limit_attempts, rate_now, ABSOLUTE_LIMIT_LOGIN) = 200
           THEN [rate_passed EXCEPT ![rate_now] = @ + 1]
           ELSE rate_passed

\* check_rate_limit_with_dedup(request, "/api/auth/login", store_id, pin)
check_rate_limit_with_dedup ==
    \E attempt_hash \in RateCredentials(rate_limit_attempts) :
        /\ SumOver(rate_passed, RateTimes) < MaxAttempts
        /\ RateChecked(attempt_hash)
        /\ UNCHANGED <<rate_now, slowapi_hits, notRateVars>>

\* POST /api/auth/login: the slowapi limit of the decorator, then the check
login_rate_limited ==
    \E attempt_hash \in RateCredentials(rate_limit_attempts) :
        /\ SumOver(rate_passed, RateTimes) < MaxAttempts
        /\ slowapi_hits' =
               [window |-> rate_now \div dedup_window,
                count |-> IF SlowapiHits(slowapi_hits, rate_now) >= LOGIN_PER_MINUTE
                          THEN SlowapiHits(slowapi_hits, rate_now)
                          ELSE SlowapiHits(slowapi_hits, rate_now) + 1]
        /\ IF SlowapiHits(slowapi_hits, rate_now) >= LOGIN_PER_MINUTE
           THEN /\ rate_status' = 429
                /\ UNCHANGED <<rate_limit_attempts, rate_passed>>
           ELSE RateChecked(attempt_hash)
        /\ UNCHANGED <<rate_now, notRateVars>>

NextRate ==
    \/ rate_tick
    \/ check_rate_limit_with_dedup
    \/ login_rate_limited

SpecRate == InitRate /\ [][NextRate]_vars

\* ------------------------------------------------------------------------
\* Specification of overlapping requests for store 1: import_prices runs
\* to its first await and later to its end, and update_itemized_prices and
\* create_box requests are served whole at any moment.
\* ------------------------------------------------------------------------
\* the prices sheet, the sheet without a Model column, and a file too large
OverlapUploads ==
    {Upload(T_p_xlsx, 20000, PriceBook), Upload(T_p_xlsx, 20000, ItemBook),
     Upload(T_p_xlsx, MAX_FILE_SIZE + 1, PriceBook)}

\* changes that import_prices_from_excel does not make itself
OverlapPriceUpdates ==
    {[changes |-> (<<"A">> :> <<PriceChange("basic_materials", PyFloat(7, 0))>>),
      csrf_token |-> [i \in 1..10 |-> "x"]],
     [changes |-> (<<"B">> :> <<PriceChange("basic_services", PyFloat(7, 0))>>),
      csrf_token |-> [i \in 1..10 |-> "x"]]}

OverlapCreateBodies == {CreateBody(<<"A">>), CreateBody(<<"B">>)}

InitOverlap ==
    /\ \E boxes \in UploadStoreLists :
           stores = [s \in StoreIds |->
                        SaveFile(s, IF s = "1" THEN boxes ELSE <<>>)]
    /\ sessions \in UploadSessions
    /\ email_codes = {}
    /\ response = NoResponse
    /\ IdleCategorize
    /\ IdleImport
    /\ IdleValidate
    /\ IdleYaml
    /\ IdleUpload
    /\ IdleLibrary
    /\ IdleAuth
    /\ IdleSingleton
    /\ IdleDimensions
    /\ IdleLate

overlapFrame ==
    <<sessions, email_codes, catVars, importVars, validateVars, yamlVars, uploadVars,
      libraryVars, authVars, singletonVars, dimVars, overlapRest>>

\* import_prices up to the first `await file.read(chunk_size)`: the
\* dependency and data = load_store_yaml(store_id)
import_prices_load ==
    \E token \in RequestTokens, file \in OverlapUploads :
        /\ import_pc \in {"idle", "done"}
        /\ import_file' = file
        /\ overlapped' = {}
        /\ IF SessionGate(verify_session(token), TRUE) # 200
           THEN /\ import_pc' = "done"
                /\ import_data' = NoLoaded
                /\ response' = StoreResponse(verify_session(token), "1",
                                             SessionGate(verify_session(token), TRUE))
           ELSE IF LoadFile(stores["1"]).status # 200
           THEN /\ import_pc' = "done"
                /\ import_data' = NoLoaded
                /\ response' = StoreResponse(verify_session(token), "1",
                                             LoadFile(stores["1"]).status)
           ELSE /\ import_pc' = "awaiting"
                /\ import_data' = LoadFile(stores["1"])
                /\ response' = response
        /\ UNCHANGED <<stores, overlapFrame>>

\* import_prices from the await on: the rows of the sheet are applied to
\* the data loaded before, and save_yaml_func(store_id, current_data)
import_prices_save ==
    /\ import_pc = "awaiting"
    /\ import_pc' = "done"
    /\ stores' =
           IF import_prices_answer(import_file, import_data.boxes).save
           THEN [stores EXCEPT !["1"] =
                    SaveFile("1", import_prices_answer(import_file,
                                                       import_data.boxes).boxes)]
           ELSE stores
    /\ response' =
           [auth_store_id |-> "1", store_id |-> "1",
            status_code |-> import_prices_answer(import_file,
                                                 import_data.boxes).status_code]
    /\ UNCHANGED <<import_data, import_file, overlapped, overlapFrame>>

\* the change of a request served while import_prices waits, if the
\* request saved and the box it names is in what it saved
Overlapping(change, outcome) ==
    overlapped' =
        IF /\ import_pc = "awaiting"
           /\ outcome.save
           /\ PyText(change.model) \in existing_models(outcome.boxes)
        THEN overlapped \cup {change}
        ELSE overlapped

overlap_update_itemized_prices ==
    \E token \in RequestTokens, update_data \in OverlapPriceUpdates :
      \E outcome \in {update_itemized_prices_outcome(
                          AdminGate(verify_session(token), "1", TRUE),
                          update_data, LoadFile(stores["1"]))} :
        /\ Handled(verify_session(token), "1", outcome)
        /\ Overlapping([kind |-> "price",
                        model |-> CHOOSE m \in DOMAIN update_data.changes : TRUE,
                        field |-> yaml_field(
                            update_data.changes[
                                CHOOSE m \in DOMAIN update_data.changes : TRUE][1].field)],
                       outcome)
        /\ UNCHANGED <<import_pc, import_data, import_file, overlapFrame>>

overlap_create_box ==
    \E token \in RequestTokens, body \in OverlapCreateBodies :
      \E outcome \in {create_box_outcome(
                          AdminGate(verify_session(token), "1", RequestAccepted(body)),
                          body, LoadFile(stores["1"]))} :
        /\ TotalBoxes < MaxStoreBoxes
        /\ Handled(verify_session(token), "1", outcome)
        /\ Overlapping([kind |-> "box", model |-> body.model, field |-> ""], outcome)
        /\ UNCHANGED <<import_pc, import_data, import_file, overlapFrame>>

NextOverlap ==
    \/ import_prices_load
    \/ import_prices_save
    \/ overlap_update_itemized_prices
    \/ overlap_create_box

SpecOverlap == InitOverlap /\ [][NextOverlap]_vars

\* ------------------------------------------------------------------------
\* Specification of the email codes of store 1: time passes, codes are
\* requested and codes are presented.
\* ------------------------------------------------------------------------
InitCodes ==
    /\ code_rows = <<>>
    /\ code_now = 0
    /\ code_offset \in CodeOffsets
    /\ accepted = <<>>
    /\ code_result = NoCodeResult
    /\ IdleEarly
    /\ IdleRate
    /\ IdleOverlap
    /\ IdlePrices
    /\ IdleFloor
    /\ IdleDemo

\* five minutes pass
code_tick ==
    /\ code_now < MaxCodeTicks * code_minutes
    /\ code_now' = code_now + code_minutes
    /\ code_result' = NoCodeResult
    /\ UNCHANGED <<code_rows, code_offset, accepted, notCodeVars>>

\* POST /api/auth/send-code: the answer is the same whatever happens
code_send ==
    \E email \in CodeEmails, code \in CodeValues :
        /\ Len(code_rows) < MaxCodes
        /\ code_rows' = create_email_verification_code(code_rows, "1", email, code,
                                                       code_now, code_offset)
        /\ code_result' = [endpoint |-> "send_code", status_code |-> 200, id |-> 0]
        /\ UNCHANGED <<code_now, code_offset, accepted, notCodeVars>>

\* POST /api/auth/verify-code: an admin session when the code is found
code_verify ==
    \E email \in CodeEmails, code \in CodeValues :
      \E id \in {FoundCode(code_rows, "1", email, code, code_now)} :
        /\ code_rows' = MarkUsed(code_rows, id)
        /\ accepted' = IF id = 0 THEN accepted
                       ELSE Append(accepted, [id |-> id, at |-> code_now])
        /\ code_result' = [endpoint |-> "verify_code",
                           status_code |-> IF id = 0 THEN 401 ELSE 200, id |-> id]
        /\ UNCHANGED <<code_now, code_offset, notCodeVars>>

NextCodes ==
    \/ code_tick
    \/ code_send
    \/ code_verify

SpecCodes == InitCodes /\ [][NextCodes]_vars

\* ------------------------------------------------------------------------
\* Specification of the operations that write itemized prices to the file
\* of store 1: update_itemized_prices, import_prices, apply_import and
\* create_box.
\* ------------------------------------------------------------------------
PriceSessions ==
    UploadSessions
    \cup {[t \in Tokens |->
              IF t = 1 THEN [store_id |-> "1", auth_level |-> "user"] ELSE NoSession]}

\* bodies of update_itemized_prices: prices inside the range, at its upper
\* end and outside it, for one box, for two boxes and for a model that
\* the store may not have
PriceBodies ==
    {<<"A">> :> <<PriceChange("box_price", PyFloat(5, 0))>>,
     <<"A">> :> <<PriceChange("box_price", PyFloat(6, 0)),
                  PriceChange("basic_materials", PyFloat(-1, 0))>>,
     (<<"A">> :> <<PriceChange("box_price", PyFloat(7, 0))>>)
         @@ (<<"B">> :> <<PriceChange("box_price", PyFloat(100001, -1))>>),
     (<<"A">> :> <<PriceChange("box_price", PyFloat(8, 0))>>)
         @@ (<<"Z">> :> <<PriceChange("box_price", PyFloat(-1, 0))>>),
     <<"B">> :> <<PriceChange("standard_services", PyFloat(10000, 0))>>}

PriceRequests == [changes : PriceBodies, csrf_token : CsrfTokens]

\* a price sheet with prices outside the range for box A
OutOfRangeBook ==
    Workbook(PriceHeaders,
             <<PriceRow(BaseSheet[2], PyText(<<"A">>), PyInt(-5), PyInt(20000))>>)

PriceUploads ==
    {Upload(T_p_xlsx, 20000, PriceBook), Upload(T_p_xlsx, 20000, OutOfRangeBook)}

\* bodies of apply_import: a price inside the range and one outside it
PriceImportUpdates ==
    {[perfect_updates |->
          <<[model |-> <<"A">>, prices |-> ("box-price" :> PyFloat(5, 0))]>>,
      approved_mappings |-> <<>>, manual_mappings |-> <<>>],
     [perfect_updates |-> <<>>,
      approved_mappings |->
          <<[model |-> <<"A">>, mapping |-> ("box" :> PyInt(22)),
             prices |-> ("box-price" :> PyFloat(-1, 0))]>>,
      manual_mappings |-> <<>>]}

InitPrices ==
    /\ \E boxes \in UploadStoreLists :
           stores = [s \in StoreIds |->
                        SaveFile(s, IF s = "1" THEN boxes ELSE <<>>)]
    /\ sessions \in PriceSessions
    /\ email_codes = {}
    /\ response = NoResponse
    /\ price_request = NoPriceRequest
    /\ IdleCategorize
    /\ IdleImport
    /\ IdleValidate
    /\ IdleYaml
    /\ IdleUpload
    /\ IdleLibrary
    /\ IdleAuth
    /\ IdleSingleton
    /\ IdleDimensions
    /\ IdleRate
    /\ IdleOverlap
    /\ IdleCodes
    /\ IdleFloor
    /\ IdleDemo

pricesFrame ==
    <<sessions, email_codes, catVars, importVars, validateVars, yamlVars, uploadVars,
      libraryVars, authVars, singletonVars, dimVars, priceRest>>

\* the models the loop of update_itemized_prices compares with the keys
\* of the changes
LoopModels(data) ==
    IF data.status # 200 THEN {}
    ELSE {box_model(data.boxes[i]).s : i \in 1..Len(data.boxes)}

prices_update_itemized_prices ==
    \E token \in RequestTokens, update_data \in PriceRequests :
      \E gate \in {AdminGate(verify_session(token), "1", TRUE)},
         data \in {LoadFile(stores["1"])} :
        /\ Handled(verify_session(token), "1",
                   update_itemized_prices_outcome(gate, update_data, data))
        /\ price_request' =
               [op |-> "update_itemized_prices",
                admitted |-> /\ gate = 200
                             /\ ~CsrfRefused(update_data.csrf_token)
                             /\ data.status = 200,
                changes |-> update_data.changes,
                models |-> LoopModels(data)]
        /\ UNCHANGED pricesFrame

prices_import_prices ==
    \E token \in RequestTokens, file \in PriceUploads :
      \E gate \in {SessionGate(verify_session(token), TRUE)},
         data \in {LoadFile(stores["1"])} :
        /\ Handled(verify_session(token), "1",
                   IF gate # 200 THEN Refused(gate)
                   ELSE IF data.status # 200 THEN Refused(data.status)
                   ELSE import_prices_answer(file, data.boxes))
        /\ price_request' =
               [op |-> "import_prices",
                admitted |-> gate = 200 /\ data.status = 200,
                changes |-> <<>>, models |-> LoopModels(data)]
        /\ UNCHANGED pricesFrame

prices_apply_import ==
    \E token \in RequestTokens, updates \in PriceImportUpdates :
      \E gate \in {SessionGate(verify_session(token), TRUE)},
         data \in {LoadFile(stores["1"])} :
        /\ Handled(verify_session(token), "1",
                   apply_import_outcome(gate, updates, data))
        /\ price_request' =
               [op |-> "apply_import",
                admitted |-> gate = 200 /\ data.status = 200,
                changes |-> <<>>, models |-> LoopModels(data)]
        /\ UNCHANGED pricesFrame

prices_create_box ==
    \E token \in RequestTokens, body \in OverlapCreateBodies :
      \E gate \in {AdminGate(verify_session(token), "1", RequestAccepted(body))},
         data \in {LoadFile(stores["1"])} :
        /\ TotalBoxes < MaxStoreBoxes
        /\ Handled(verify_session(token), "1", create_box_outcome(gate, body, data))
        /\ price_request' =
               [op |-> "create_box",
                admitted |-> gate = 200 /\ data.status = 200,
                changes |-> <<>>, models |-> LoopModels(data)]
        /\ UNCHANGED pricesFrame

NextPrices ==
    \/ prices_update_itemized_prices
    \/ prices_import_prices
    \/ prices_apply_import
    \/ prices_create_box

SpecPrices == InitPrices /\ [][NextPrices]_vars

\* ------------------------------------------------------------------------
\* Specification of the floorplan upload: floorplans are uploaded and
\* boxes are placed on them.
\* ------------------------------------------------------------------------
\* uploads: content type, size in bytes, and whether Pillow can open the
\* content
FloorUploads ==
    [content_type : {"image/png", "application/pdf"},
     size : {1000, FLOORPLAN_MAX_SIZE + 1},
     image : BOOLEAN]

\* the directory before the requests: floorplans of store 1 under the
\* current and a legacy name, and one of store 2
FloorDirs ==
    {{}, {FloorplanName("1")}, {FloorplanName("1"), FloorplanName("2")},
     {T_store \o <<"1">> \o T_jpg}}

FloorStoreLists ==
    {<<UploadBox(<<"A">>, F10)>>,
     <<NewBox([model |-> <<"A">>, dimensions |-> F10, from_library |-> FALSE,
               location |-> Coords(PyInt(5), PyInt(1))])>>}

InitFloor ==
    /\ \E boxes \in FloorStoreLists :
           stores = [s \in StoreIds |->
                        SaveFile(s, IF s = "1" THEN boxes ELSE <<>>)]
    /\ sessions \in UploadSessions
    /\ email_codes = {}
    /\ response = NoResponse
    /\ floorplan_files \in FloorDirs
    /\ floor_request = NoFloorRequest
    /\ IdleCategorize
    /\ IdleImport
    /\ IdleValidate
    /\ IdleYaml
    /\ IdleUpload
    /\ IdleLibrary
    /\ IdleAuth
    /\ IdleSingleton
    /\ IdleDimensions
    /\ IdleRate
    /\ IdleOverlap
    /\ IdleCodes
    /\ IdlePrices
    /\ IdleDemo

floorFrame ==
    <<sessions, email_codes, catVars, importVars, validateVars, yamlVars, uploadVars,
      libraryVars, authVars, singletonVars, dimVars, floorRest>>

\* del box["location"] for every box
LocationsCleared(boxes) ==
    [i \in 1..Len(boxes) |-> WithoutField(boxes[i], "location")]

locations_cleared(boxes) ==
    Cardinality({i \in 1..Len(boxes) : "location" \in DOMAIN boxes[i]})

\* upload_floorplan from load_store_yaml on
floorplan_locations(data) ==
    IF data.status # 200 THEN Refused(data.status)
    ELSE IF locations_cleared(data.boxes) > 0 THEN Saved(LocationsCleared(data.boxes))
    ELSE Served

\* upload_floorplan: how far the handler comes and the status it answers
floorplan_exit(gate, file) ==
    IF gate # 200 THEN [removed |-> FALSE, written |-> FALSE, status_code |-> gate]
    ELSE IF file.content_type \notin allowed_types
    THEN [removed |-> FALSE, written |-> FALSE, status_code |-> 400]
    ELSE IF file.size > FLOORPLAN_MAX_SIZE
    THEN [removed |-> FALSE, written |-> FALSE, status_code |-> 400]
    ELSE IF ~file.image
    THEN [removed |-> TRUE, written |-> FALSE, status_code |-> 400]
    ELSE [removed |-> TRUE, written |-> TRUE, status_code |-> 200]

\* the directory after upload_floorplan
floorplan_files_after(files, store_id, exit) ==
    (IF exit.removed THEN files \ ExistingFloorplans(files, store_id) ELSE files)
    \cup (IF exit.written THEN {FloorplanName(store_id)} ELSE {})

upload_floorplan ==
    \E token \in RequestTokens, store_id \in StoreIds, file \in FloorUploads :
      \E exit \in {floorplan_exit(SessionGate(verify_session(token), TRUE), file)} :
        /\ floorplan_files' = floorplan_files_after(floorplan_files, store_id, exit)
        /\ Handled(verify_session(token), store_id,
                   IF exit.written THEN floorplan_locations(LoadFile(stores[store_id]))
                   ELSE Refused(exit.status_code))
        /\ floor_request' =
               [op |-> "upload_floorplan", store_id |-> store_id,
                content_type |-> file.content_type, size |-> file.size,
                image |-> file.image,
                before |-> FloorplansOf(floorplan_files, store_id)]
        /\ UNCHANGED floorFrame

floor_update_box_location ==
    \E token \in RequestTokens, location \in LocationBodies :
        /\ Handled(verify_session(token), "1",
                   update_box_location_outcome(
                       AdminGate(verify_session(token), "1", TRUE),
                       <<"A">>, location, LoadFile(stores["1"])))
        /\ floor_request' =
               [NoFloorRequest EXCEPT !.op = "update_box_location", !.store_id = "1"]
        /\ UNCHANGED <<floorplan_files, floorFrame>>

NextFloor ==
    \/ upload_floorplan
    \/ floor_update_box_location

SpecFloor == InitFloor /\ [][NextFloor]_vars

\* ------------------------------------------------------------------------
\* Specification of the demo store: demo logins and resets, changes of
\* the store through the store API, and the clock.
\* ------------------------------------------------------------------------
InitDemo ==
    /\ demo_store = NoDemoFile
    /\ demo_rules = {}
    /\ demo_sessions = {}
    /\ demo_now = 0
    /\ demo_reset_at = NoTimestamp
    /\ demo_changes = {}
    /\ demo_result = NoDemoResult
    /\ IdleEarly
    /\ IdleRate
    /\ IdleOverlap
    /\ IdleCodes
    /\ IdlePrices
    /\ IdleFloor

demo_tick ==
    /\ demo_now < MaxDemoTicks * demo_step
    /\ demo_now' = demo_now + demo_step
    /\ demo_result' = NoDemoResult
    /\ UNCHANGED <<demo_store, demo_rules, demo_sessions, demo_reset_at,
                   demo_changes, notDemoVars>>

\* the reset of demo_login and of demo_reset: the custom rules are
\* deleted and the template is copied with a new timestamp
DemoStoreReset ==
    /\ demo_rules' = {}
    /\ demo_store' = DemoReset(demo_now)
    /\ demo_reset_at' = demo_now
    /\ demo_changes' = {}

DemoAnswer(op, status_code) ==
    [op |-> op, status_code |-> status_code,
     since |-> IF demo_reset_at = NoTimestamp THEN NoTimestamp
               ELSE demo_now - demo_reset_at,
     changes |-> demo_changes]

\* POST /api/auth/demo/login
demo_login ==
    \E auth_level \in {"user", "admin", "superadmin"} :
        IF auth_level \notin {"user", "admin"}
        THEN /\ demo_result' = DemoAnswer("demo_login", 400)
             /\ UNCHANGED <<demo_store, demo_rules, demo_sessions, demo_now,
                            demo_reset_at, demo_changes, notDemoVars>>
        ELSE IF needs_reset(demo_store, demo_now) /\ ~demo_template.exists
        THEN /\ demo_result' = DemoAnswer("demo_login", 500)
             /\ UNCHANGED <<demo_store, demo_rules, demo_sessions, demo_now,
                            demo_reset_at, demo_changes, notDemoVars>>
        ELSE /\ IF needs_reset(demo_store, demo_now)
                THEN DemoStoreReset
                ELSE UNCHANGED <<demo_store, demo_rules, demo_reset_at, demo_changes>>
             /\ demo_sessions' = demo_sessions \cup {auth_level}
             /\ demo_result' = DemoAnswer("demo_login", 200)
             /\ UNCHANGED <<demo_now, notDemoVars>>

\* POST /api/auth/demo/reset
demo_reset ==
    /\ IF ~demo_template.exists
       THEN /\ demo_result' = DemoAnswer("demo_reset", 500)
            /\ UNCHANGED <<demo_store, demo_rules, demo_reset_at, demo_changes>>
       ELSE /\ DemoStoreReset
            /\ demo_result' = DemoAnswer("demo_reset", 200)
    /\ UNCHANGED <<demo_sessions, demo_now, notDemoVars>>

\* the changes of the store API: a box created, a price and a location
\* of the box of the template
DemoChanges == {"box", "price", "location"}

DemoChanged(boxes, change) ==
    CASE change = "box" -> Append(boxes, DemoBox("B"))
      [] change = "price" ->
             [i \in 1..Len(boxes) |->
                 IF boxes[i].model = "T" THEN [boxes[i] EXCEPT !.price = 5]
                 ELSE boxes[i]]
      [] OTHER ->
             [i \in 1..Len(boxes) |->
                 IF boxes[i].model = "T" THEN [boxes[i] EXCEPT !.location = 1]
                 ELSE boxes[i]]

\* create_box, update_itemized_prices and update_box_location on store
\* 999999 with an admin session: load_store_yaml, the change,
\* save_store_yaml
demo_store_change ==
    \E change \in DemoChanges :
        /\ "admin" \in demo_sessions
        /\ demo_store.exists
        /\ change = "box" => Len(demo_store.boxes) < MaxDemoBoxes
        /\ demo_store' = DemoSaved(DemoChanged(demo_store.boxes, change))
        /\ demo_changes' = demo_changes \cup {change}
        /\ demo_result' = DemoAnswer(change, 200)
        /\ UNCHANGED <<demo_rules, demo_sessions, demo_now, demo_reset_at,
                       notDemoVars>>

\* update_packing_rules on store 999999 with an admin session
demo_update_packing_rules ==
    /\ "admin" \in demo_sessions
    /\ demo_rules' = {"Custom"}
    /\ demo_changes' = demo_changes \cup {"rules"}
    /\ demo_result' = DemoAnswer("rules", 200)
    /\ UNCHANGED <<demo_store, demo_sessions, demo_now, demo_reset_at, notDemoVars>>

NextDemo ==
    \/ demo_tick
    \/ demo_login
    \/ demo_reset
    \/ demo_store_change
    \/ demo_update_packing_rules

SpecDemo == InitDemo /\ [][NextDemo]_vars

\* ------------------------------------------------------------------------
\* Vocabulary of the properties of the import analysis
\* ------------------------------------------------------------------------
Returned == analysis.status = 200

\* the number of entries of a tier list that describe the given box
EntriesOf(list, box) ==
    LET header == BoxHeader(box)
    IN Cardinality({k \in 1..Len(list) : list[k].box = header})

\* the mapping names all nine required fields and every mapped id is the
\* Item of some row
CompleteMappingFound(box) ==
    /\ "MPOS_mapping" \in DOMAIN box
    /\ RequiredSet \subseteq DOMAIN box.MPOS_mapping
    /\ \A f \in DOMAIN box.MPOS_mapping :
           \E r \in 1..Len(rows_data) :
               PyStr(rows_data[r].Item) = PyStr(box.MPOS_mapping[f])

\* the integer-truncated dimension triple of a row and of a box
NameTruncated ==
    [n \in {m \in SheetNames : NameInfo[m].match # NoMatch} |->
        [i \in 1..3 |-> Trunc(FloatOfToken(NameInfo[n].match.groups[i]))]]
RowTruncated(row) == NameTruncated[row.name]
BoxTruncated(box) == [i \in 1..3 |-> Trunc(box.dimensions[i])]

\* the rows whose parsed, truncated dimensions are those of the box
GroupRows(box) ==
    LET truncated == BoxTruncated(box)
    IN {r \in 1..Len(rows_data) :
           /\ RowMatch(rows_data[r]) # NoMatch
           /\ RowTruncated(rows_data[r]) = truncated}

\* the required categories no row of the box's group was categorised as
GroupMissing(box) ==
    RequiredSet \ {RowCategory(rows_data[r]) : r \in GroupRows(box)}

\* C1: a store box with a complete nine-field mapping whose every item id
\* is found in the sheet is in perfect_matches and in no other tier,
\* whatever its dimensions.
C1_PerfectWhenMappingFound ==
    Returned =>
        \A i \in 1..Len(store_data) :
            CompleteMappingFound(store_data[i]) =>
                /\ EntriesOf(analysis.perfect_matches, store_data[i]) >= 1
                /\ EntriesOf(analysis.probable_matches, store_data[i]) = 0
                /\ EntriesOf(analysis.incomplete_matches, store_data[i]) = 0
                /\ EntriesOf(analysis.manual_required, store_data[i]) = 0

\* C1 witness: a perfect match whose dimensions match no group of the sheet
C1_Witness ==
    /\ Returned
    /\ \E i \in 1..Len(store_data) :
           /\ CompleteMappingFound(store_data[i])
           /\ GroupRows(store_data[i]) = {}
           /\ EntriesOf(analysis.perfect_matches, store_data[i]) = 1

\* C2 as stated: a store box whose truncated dimensions match a group that
\* lacks a required category is always classified incomplete.
C2_AlwaysIncomplete ==
    Returned =>
        \A i \in 1..Len(store_data) :
            (GroupRows(store_data[i]) # {} /\ GroupMissing(store_data[i]) # {}) =>
                /\ EntriesOf(analysis.incomplete_matches, store_data[i]) >= 1
                /\ EntriesOf(analysis.probable_matches, store_data[i]) = 0

\* C2 amended: a store box that is not a perfect match and whose truncated
\* dimensions match a group lacking a required category is classified
\* incomplete, never probable.
C2_IncompleteUnlessPerfect ==
    Returned =>
        \A i \in 1..Len(store_data) :
            (/\ ~CompleteMappingFound(store_data[i])
             /\ GroupRows(store_data[i]) # {}
             /\ GroupMissing(store_data[i]) # {}) =>
                /\ EntriesOf(analysis.incomplete_matches, store_data[i]) >= 1
                /\ EntriesOf(analysis.probable_matches, store_data[i]) = 0
                /\ EntriesOf(analysis.perfect_matches, store_data[i]) = 0
                /\ EntriesOf(analysis.manual_required, store_data[i]) = 0

\* C2 witness: an incomplete box whose group lacks exactly one category
C2_Witness ==
    /\ Returned
    /\ \E i \in 1..Len(store_data) :
           /\ ~CompleteMappingFound(store_data[i])
           /\ Cardinality(GroupMissing(store_data[i])) = 1
           /\ EntriesOf(analysis.incomplete_matches, store_data[i]) = 1

\* the store and the sheet of the documented example
ExampleBox == WithPrices([type |-> "NormalBox", model |-> <<"A">>,
                          dimensions |-> D10], ZeroPrices)
ExampleInput ==
    /\ rows_data = SubSeq(BaseSheet, 1, 2)
    /\ store_data = <<ExampleBox>>

\* C6: missing_categories of an incomplete box lists exactly the required
\* categories absent from its truncated-dimension group, each once; the
\* documented example is incomplete with 7 of the 9 categories missing.
C6_MissingCategoriesExact ==
    Returned =>
        /\ \A i \in 1..Len(store_data) :
               \A k \in 1..Len(analysis.incomplete_matches) :
                   analysis.incomplete_matches[k].box = BoxHeader(store_data[i]) =>
                       LET missing == analysis.incomplete_matches[k].missing_categories
                       IN /\ {missing[j] : j \in 1..Len(missing)}
                                 = GroupMissing(store_data[i])
                          /\ Len(missing) = Cardinality(GroupMissing(store_data[i]))
        /\ ExampleInput =>
               /\ Len(analysis.incomplete_matches) = 1
               /\ Len(analysis.incomplete_matches[1].missing_categories) = 7
               /\ analysis.summary.perfect_matches = 0
               /\ analysis.summary.probable_matches = 0
               /\ analysis.summary.manual_required = 0

\* C6 witness: the documented example has been analysed
C6_Witness ==
    /\ Returned
    /\ ExampleInput
    /\ Len(analysis.incomplete_matches) = 1
    /\ Len(analysis.incomplete_matches[1].missing_categories) = 7

\* C7: a store box that is not a perfect match is manual_required exactly
\* when no row with a parsed dimension triple truncates to the box's
\* truncated dimensions.
C7_ManualIffNoTruncatedGroup ==
    Returned =>
        \A i \in 1..Len(store_data) :
            EntriesOf(analysis.perfect_matches, store_data[i]) = 0 =>
                (EntriesOf(analysis.manual_required, store_data[i]) >= 1
                    <=> GroupRows(store_data[i]) = {})

\* C7 witness: the box [10.5,10,10] is grouped with the row '10.9x10x10 Box'
\* although no exact dimension string of the sheet is the box's
C7_Witness ==
    /\ Returned
    /\ \E i \in 1..Len(store_data) :
           /\ store_data[i].dimensions = D105
           /\ EntriesOf(analysis.incomplete_matches, store_data[i]) = 1
           /\ \A r \in GroupRows(store_data[i]) :
                  RowMatch(rows_data[r]).groups[1] = <<"1", "0", ".", "9">>
           /\ BoxDimStr(store_data[i]) \notin DOMAIN analysis.excel_dimension_groups_exact

\* C8: every store box is in exactly one tier list and the four summary
\* counts add up to summary.total_boxes.
C8_ExactlyOneTier ==
    Returned =>
        /\ analysis.summary.total_boxes = Len(store_data)
        /\ analysis.summary.perfect_matches + analysis.summary.probable_matches
             + analysis.summary.incomplete_matches + analysis.summary.manual_required
             = analysis.summary.total_boxes
        /\ analysis.summary.perfect_matches = Len(analysis.perfect_matches)
        /\ analysis.summary.probable_matches = Len(analysis.probable_matches)
        /\ analysis.summary.incomplete_matches = Len(analysis.incomplete_matches)
        /\ analysis.summary.manual_required = Len(analysis.manual_required)
        /\ \A i \in 1..Len(store_data) :
               /\ EntriesOf(analysis.perfect_matches, store_data[i])
                    + EntriesOf(analysis.probable_matches, store_data[i])
                    + EntriesOf(analysis.incomplete_matches, store_data[i])
                    + EntriesOf(analysis.manual_required, store_data[i])
                    = Cardinality({j \in 1..Len(store_data) :
                                      BoxHeader(store_data[j]) = BoxHeader(store_data[i])})
               /\ Cardinality({t \in {"perfect_matches", "probable_matches",
                                      "incomplete_matches", "manual_required"} :
                                  EntriesOf(analysis[t], store_data[i]) >= 1}) = 1

\* C8 witness: two boxes of one store land in different tiers, one of them
\* a probable match
C8_Witness ==
    /\ Returned
    /\ Len(store_data) = 2
    /\ analysis.summary.probable_matches = 1
    /\ analysis.summary.perfect_matches = 1

\* ------------------------------------------------------------------------
\* Properties of the categorisation
\* ------------------------------------------------------------------------
S_pack_svc_fragile == S_pack_svc \o <<" ">> \o S_fragile

Categorized == category # Pending

\* C9 as stated: every name containing "pack svc fragile" is categorised
\* fragile_service, whatever other words it contains.
C9_AlwaysFragileService ==
    (Categorized /\ Contains(Lower(product_name), S_pack_svc_fragile)) =>
        category = "fragile_service"

\* C9 amended: a name containing "pack svc fragile" is categorised
\* fragile_service unless it also contains "basic", "std" or "standard",
\* and it is never categorised box.
C9_FragileServiceUnlessEarlierTier ==
    (Categorized /\ Contains(Lower(product_name), S_pack_svc_fragile)) =>
        /\ category # "box"
        /\ (/\ ~Contains(Lower(product_name), S_basic)
            /\ ~Contains(Lower(product_name), S_std)
            /\ ~Contains(Lower(product_name), S_standard))
               => category = "fragile_service"

\* C9 witness: a name with dimensions, "Pack Svc Fragile" and another tier
\* word is categorised fragile_service
C9_Witness ==
    /\ category = "fragile_service"
    /\ Contains(Lower(product_name), S_pack_svc_fragile)
    /\ Contains(Lower(product_name), S_cust)

\* ------------------------------------------------------------------------
\* Properties of the validation
\* ------------------------------------------------------------------------
Validated == validation # NotValidated

\* the itemized-prices of the box lack one of the nine fields
LacksPriceField(box) ==
    \/ "itemized-prices" \notin DOMAIN box
    \/ box["itemized-prices"].t # "dict"
    \/ ~(itemized_price_fields \subseteq DOMAIN box["itemized-prices"].fields)

\* C10 as stated: validate_box_data raises an error for every box whose
\* itemized-prices lack any of the nine price fields.
C10_RaisesUnlessNinePrices ==
    (Validated /\ LacksPriceField(box_data)) => validation.raised

\* C10 witness: a box without basic-materials and basic-services has been
\* validated without an error
C10_Witness ==
    /\ Validated
    /\ ~validation.raised
    /\ DOMAIN box_data["itemized-prices"].fields
          = itemized_price_fields \ {"basic-materials", "basic-services"}

\* ------------------------------------------------------------------------
\* Properties of the store file
\* ------------------------------------------------------------------------
Reloaded == yaml_loaded # NotLoaded

SameModel(saved, loaded) ==
    "model" \in DOMAIN loaded /\ loaded.model = saved.model

SameDimensions(saved, loaded) ==
    /\ loaded.dimensions.t = "list"
    /\ Len(loaded.dimensions.items) = 3
    /\ \A i \in 1..3 :
           /\ IsNumber(loaded.dimensions.items[i])
           /\ NumEq(loaded.dimensions.items[i], saved.dimensions.items[i])

SamePrices(saved, loaded) ==
    /\ "itemized-prices" \in DOMAIN loaded
    /\ \A f \in itemized_price_fields :
           /\ IsNumber(loaded["itemized-prices"].fields[f])
           /\ NumEq(loaded["itemized-prices"].fields[f],
                    saved["itemized-prices"].fields[f])

AllApiBoxes == \A i \in 1..Len(yaml_data) : yaml_data[i] \in ApiBoxes

\* C5 as stated: for every box list accepted by the API, save_store_yaml
\* followed by load_store_yaml reproduces, for each box in the same order,
\* the same dimensions, the same nine itemized prices and the same model.
C5_RoundTripPreserves ==
    (Reloaded /\ AllApiBoxes) =>
        /\ yaml_loaded.status = 200
        /\ Len(yaml_loaded.boxes) = Len(yaml_data)
        /\ \A i \in 1..Len(yaml_data) :
               /\ SameModel(yaml_data[i], yaml_loaded.boxes[i])
               /\ SameDimensions(yaml_data[i], yaml_loaded.boxes[i])
               /\ SamePrices(yaml_data[i], yaml_loaded.boxes[i])

\* C5 witness: a list of API boxes is read back without an error, with a
\* model that is not the one saved
C5_Witness ==
    /\ Reloaded
    /\ AllApiBoxes
    /\ yaml_loaded.status = 200
    /\ \E i \in 1..Len(yaml_data) :
           yaml_loaded.boxes[i].model # yaml_data[i].model

\* ------------------------------------------------------------------------
\* Properties of the API of the stores
\* ------------------------------------------------------------------------
\* an endpoint under /api/store/{store_id}/ has served the last request
ServedCatalog == response.status_code = 200 /\ response.store_id \in StoreIds

BoxesOf(store_id) == LoadFile(stores[store_id]).boxes

DistinctModels(boxes) ==
    \A i, j \in 1..Len(boxes) : i # j => boxes[i].model # boxes[j].model

\* C3 as stated: an endpoint under /api/store/{store_id}/ that reads or
\* modifies the catalog serves the request only when the session of the
\* bearer token belongs to the store of the path.
C3_OnlyOwnStore ==
    ServedCatalog => response.auth_store_id = response.store_id

\* C3 witness: a request was served to a session of one store on the path
\* of the other store, where a box lies at a place of the floorplan
C3_Witness ==
    /\ ServedCatalog
    /\ response.auth_store_id \in StoreIds \ {response.store_id}
    /\ \E i \in 1..Len(BoxesOf(response.store_id)) :
           "location" \in DOMAIN BoxesOf(response.store_id)[i]

\* C4 as stated: starting from stores with pairwise distinct models, after
\* any sequence of create_box, create_boxes_batch, delete_box,
\* update_itemized_prices and update_box_location requests no two boxes of
\* a store have the same model.
C4_ModelsUnique == \A s \in StoreIds : DistinctModels(BoxesOf(s))

\* C4 witness: create_boxes_batch was served and the store holds two boxes
\* of one model
C4_Witness ==
    /\ ServedCatalog
    /\ response.auth_store_id = response.store_id
    /\ ~DistinctModels(BoxesOf(response.store_id))

\* ------------------------------------------------------------------------
\* Properties of the upload operations
\* ------------------------------------------------------------------------
UploadOperations ==
    {"import_prices_from_excel", "analyze_excel_structure",
     "analyze_import_for_matching", "discover_boxes_from_prices"}

\* the file is of the wrong type or larger than the cap
Rejectable(file) == ~IsExcelName(file.filename) \/ file.size > MAX_FILE_SIZE

\* C11 as stated: every Excel upload operation rejects a file of the wrong
\* type or larger than the 512KB cap before parsing it, and the rejection
\* is an HTTP 400.
C11_RejectedWith400 ==
    (upload_result.operation \in UploadOperations /\ Rejectable(upload))
        => (upload_result.status_code = 400 /\ ~upload_result.parsed)

\* C11 witness: an .xlsx file of one byte more than the cap was handed to
\* the matching analysis, which answered 500 without parsing it
C11_Witness ==
    /\ upload_result.operation = "analyze_import_for_matching"
    /\ IsExcelName(upload.filename)
    /\ upload.size = MAX_FILE_SIZE + 1
    /\ upload_result.status_code = 500
    /\ ~upload_result.parsed

\* C12: a step of the analysis endpoint, whatever the upload and whether
\* the analysis succeeds or fails, leaves the file of every store as it
\* was; the apply step is the one that writes.
C12_AnalysisReadOnly == [][analyze_import => stores' = stores]_vars

\* C12 witness: the analysis was served for a store whose file carries a
\* mapping written by the apply step
C12_Witness ==
    /\ upload_result.operation = "analyze_import_for_matching"
    /\ upload_result.status_code = 200
    /\ \E s \in StoreIds : \E i \in 1..Len(BoxesOf(s)) :
           "MPOS_mapping" \in DOMAIN BoxesOf(s)[i]

\* ------------------------------------------------------------------------
\* Properties of the sessions
\* ------------------------------------------------------------------------
\* verify_session accepted the token of the last request
Accepted == auth_result.auth # NoSession

\* the hour at which the session of the token expires
ExpiryOf(token) == issued[token].created + issued[token].hours

\* C13 as stated: a token is accepted only between the create_session that
\* issued it and the earlier of its expiry and its logout, and the
\* accepted result is the store_id and auth level it was created with.
C13_AcceptedOnlyWhileValid ==
    Accepted =>
        /\ auth_result.token \in 1..Len(issued)
        /\ issued[auth_result.token].created <= clock
        /\ clock < ExpiryOf(auth_result.token)
        /\ ~auth_result.was_logged_out
        /\ auth_result.auth =
               [store_id |-> issued[auth_result.token].store_id,
                auth_level |-> issued[auth_result.token].auth_level]

\* C13 witness: a token was accepted at or after the hour of its expiry
C13_Witness ==
    /\ Accepted
    /\ auth_result.token \in 1..Len(issued)
    /\ clock >= ExpiryOf(auth_result.token)

\* C19 as stated: every superadmin session of an account with TOTP enabled
\* was issued after a successful password verification for that account.
C19_PasswordBeforeToken ==
    \A t \in 1..Len(issued) :
        (issued[t].auth_level = "superadmin"
         /\ superadmins[issued[t].store_id].totp_enabled)
            => issued[t].store_id \in password_verified

\* C19 witness: the TOTP step has answered with a token and no password
\* was ever verified
C19_Witness ==
    /\ auth_result.endpoint = "superadmin_totp_verify"
    /\ auth_result.access_token \in 1..Len(issued)
    /\ password_verified = {}

\* the endpoints under /api/store/{store_id} of this part
StoreEndpoints == {"get_store_info", "export_prices"}

\* the last request came with a user or admin session of the store of its
\* path, and that store is disabled
OfDisabledStore ==
    /\ auth_result.endpoint \in StoreEndpoints
    /\ Accepted
    /\ auth_result.auth.auth_level \in {"user", "admin"}
    /\ auth_result.auth.store_id = auth_result.store_id
    /\ store_status[auth_result.store_id] = "disabled"

\* C20 as stated: while a store is disabled, a request with a user or admin
\* session of that store to an endpoint of the store is refused with 403.
C20_DisabledStoreRefused == OfDisabledStore => auth_result.status_code = 403

\* C20 witness: export_prices was served to a session of a disabled store
C20_Witness ==
    /\ OfDisabledStore
    /\ auth_result.endpoint = "export_prices"
    /\ auth_result.status_code = 200

\* ------------------------------------------------------------------------
\* Properties of the auth levels
\* ------------------------------------------------------------------------
\* the sessions table holds no admin session
NoAdminSession == \A t \in Tokens : sessions[t].auth_level # "admin"

\* C14 as stated: a PIN login gives a user-level session, and no request
\* made while only user-level sessions exist changes the catalog of a
\* store.
C14_UserSessionsReadOnly == [][NoAdminSession => stores' = stores]_vars

\* C14 witness: the table holds a user session of store 1 and no admin
\* session, the last request was served on the path of store 1, and a box
\* of store 1 has a place on the floorplan
C14_Witness ==
    /\ NoAdminSession
    /\ \E t \in Tokens : sessions[t] = [store_id |-> "1", auth_level |-> "user"]
    /\ response = [auth_store_id |-> "1", store_id |-> "1", status_code |-> 200]
    /\ \E i \in 1..Len(BoxesOf("1")) : "location" \in DOMAIN BoxesOf("1")[i]

\* ------------------------------------------------------------------------
\* Properties of the box discovery
\* ------------------------------------------------------------------------
\* the same three numbers, in any order
SameTriple(a, b) ==
    \E p \in Permutations(1..3) : \A i \in 1..3 : NumEq(a[p[i]], b[i])

\* some store box has the three dimension values
InStore(dims) ==
    \E i \in 1..Len(store_data) : SameTriple(store_data[i]["dimensions"].items, dims)

\* the library holds a box with exactly those dimensions
InLibrary(dims) ==
    \E i \in 1..Len(LoadedLibrary(library_file)) :
        SameTriple(LoadedLibrary(library_file)[i].dimensions, dims)

\* the dimensions of the entries of the three buckets, one after another
Bucketings ==
    [i \in 1..Len(discovery.already_in_store) |->
        [bucket |-> "already_in_store",
         dims |-> discovery.already_in_store[i].dimensions]]
    \o [i \in 1..Len(discovery.library_matches) |->
        [bucket |-> "library_matches",
         dims |-> discovery.library_matches[i].discovered.dimensions]]
    \o [i \in 1..Len(discovery.unmatched_dimensions) |->
        [bucket |-> "unmatched_dimensions",
         dims |-> discovery.unmatched_dimensions[i].dimensions]]

\* the bucket the claim gives to a dimension triple
BucketOf(dims) ==
    IF InStore(dims) THEN "already_in_store"
    ELSE IF InLibrary(dims) THEN "library_matches"
    ELSE "unmatched_dimensions"

\* the three floats of the name of a box row, as they stand in the name
NamedTriple(row) == [i \in 1..3 |-> FloatOfToken(RowMatch(row).groups[i])]

Got == {t \in Threads : call[t].function = "get_box_library" /\ pc[t] = "idle"}

\* C16 as stated: once the whole of the modelled time has elapsed since the
\* library was loaded, the next get_box_library call reloads it from disk,
\* so that what it returns was loaded no earlier than the call started.
C16_ReloadedAfterTtl ==
    \A t \in Got :
        call[t].elapsed >= MaxClock => returned[t].loaded_at >= call[t].started

\* C16 witness: a get_box_library call made when the instance was as old as
\* the modelled time allows, and after the file on disk had been edited,
\* has returned.
C16_Witness ==
    \E t \in Got :
        /\ call[t].elapsed >= MaxClock
        /\ returned[t] # NoInstance
        /\ LoadedLibrary(library_file) # returned[t].boxes

\* C17: while no reload was requested at most one BoxLibrary has been
\* constructed and every get_box_library call that returned received that
\* one instance with the boxes of the file, never None; and every
\* get_box_library call that started
\* after a reload_box_library call had returned received the instance of
\* that reload or of a later one.
C17_ThreadSafe ==
    /\ reloads = 0 =>
           /\ constructed <= 1
           /\ \A t \in Got : /\ returned[t].id = 1
                            /\ returned[t] = _library_instance
                            /\ returned[t].boxes = LoadedLibrary(library_file)
    /\ \A t \in Got :
           /\ returned[t] # NoInstance
           /\ call[t].after_reload > 0 => returned[t].id >= call[t].after_reload

\* C17 witness: with no reload requested every thread has called
\* get_box_library and all the calls have returned.
C17_Witness ==
    /\ reloads = 0
    /\ Got = Threads
    /\ constructed = 1

\* C17 witness of the second half: a get_box_library call that started
\* after a reload had returned has itself returned.
C17_AfterReload ==
    \E t \in Got : call[t].after_reload > 0 /\ returned[t].id = call[t].after_reload

\* a numeric token: digits, or digits, a point and digits
NumericToken(tok) ==
    /\ Len(tok) > 0
    /\ IsDigit(tok[1]) /\ IsDigit(tok[Len(tok)])
    /\ \A i \in 1..Len(tok) : IsDigit(tok[i]) \/ tok[i] = "."
    /\ Cardinality({i \in 1..Len(tok) : tok[i] = "."}) <= 1

\* the number a numeric token writes, as mantissa and power of ten
RECURSIVE TokenValue(_)
TokenValue(tok) ==
    IF Len(tok) = 0 THEN <<0, 0>>
    ELSE LET rest == TokenValue(SubSeq(tok, 1, Len(tok) - 1))
             last == tok[Len(tok)]
         IN IF last = "." THEN <<rest[1], 0>>
            ELSE IF \E i \in 1..Len(tok) : tok[i] = "."
            THEN <<10 * rest[1] + DigitVal(last), rest[2] - 1>>
            ELSE <<10 * rest[1] + DigitVal(last), 0>>

\* a separator: the letter x or X alone
BareSeparator(sep) == sep = <<"x">> \/ sep = <<"X">>

\* a separator: one letter x or X, with any white space around it
SpacedSeparator(sep) ==
    \E p \in 1..Len(sep) :
        /\ sep[p] \in {"x", "X"}
        /\ \A i \in 1..Len(sep) : i # p => sep[i] = " "

\* the occurrences of three numeric tokens with two separators between
\* them in a name: where each token begins and ends
Occurrences(name, Separator(_)) ==
    LET n == Len(name)
        TokenEnds(b) == {e \in b..n : NumericToken(SubSeq(name, b, e))}
        NextBegins(e) == {b \in (e + 2)..n : Separator(SubSeq(name, e + 1, b - 1))}
    IN UNION {UNION {UNION {UNION {UNION {
           {[b1 |-> b1, e1 |-> e1, b2 |-> b2, e2 |-> e2, b3 |-> b3, e3 |-> e3] :
               e3 \in TokenEnds(b3)} :
           b3 \in NextBegins(e2)} : e2 \in TokenEnds(b2)} : b2 \in NextBegins(e1)} :
           e1 \in TokenEnds(b1)} : b1 \in 1..n}

\* the first occurrence, each of its tokens taken whole
FirstOccurrence(occurrences) ==
    CHOOSE o \in occurrences :
        \A other \in occurrences :
            \/ o.b1 < other.b1
            \/ o.b1 = other.b1 /\ o.e1 >= other.e1 /\ o.e2 >= other.e2
                                /\ o.e3 >= other.e3

\* the three numbers of an occurrence, in their order of appearance
NumbersOf(name, o) ==
    <<TokenValue(SubSeq(name, o.b1, o.e1)), TokenValue(SubSeq(name, o.b2, o.e2)),
      TokenValue(SubSeq(name, o.b3, o.e3))>>

\* what the extraction is said to return for a name with the given
\* occurrences: None without one, else the numbers of the first as floats
ExtractedFrom(name, occurrences) ==
    IF occurrences = {} THEN extracted = PyNone
    ELSE LET numbers == NumbersOf(name, FirstOccurrence(occurrences))
         IN /\ extracted.t = "tuple"
            /\ \A i \in 1..3 :
                   /\ extracted.s[i].t = "float"
                   /\ <<extracted.s[i].m, extracted.s[i].e>> = numbers[i]

\* C18 as stated: for a name that contains three numeric tokens separated
\* by x or X, get_dimensions_from_name returns the three numbers of the
\* first such occurrence as floats in their order, and for every other
\* name it returns None.
C18_ExtractedFromBare ==
    extracted # NotExtracted =>
        ExtractedFrom(box_name, Occurrences(box_name, BareSeparator))

\* C18: the same with white space allowed before and after each x or X.
C18_ExtractedFromSpaced ==
    extracted # NotExtracted =>
        ExtractedFrom(box_name, Occurrences(box_name, SpacedSeparator))

\* C18 witness: three numbers were extracted from a name in which white
\* space stands next to a separator of every occurrence.
C18_Witness ==
    /\ extracted # NotExtracted
    /\ extracted # PyNone
    /\ Occurrences(box_name, BareSeparator) = {}

\* the calls that passed the check within the minute that ends now
PassedLastMinute ==
    SumOver(rate_passed, {t \in RateTimes : t > rate_now - dedup_window /\ t <= rate_now})

\* C21 as stated: within a minute at most ABSOLUTE_LIMITS["/api/auth/login"]
\* calls pass check_rate_limit_with_dedup, whatever credentials they carry.
C21_AbsoluteLimit == PassedLastMinute <= ABSOLUTE_LIMIT_LOGIN

\* C21 witness: one call more than the limit has been made within a minute
\* with one and the same credentials, and the table holds one row.
C21_Witness ==
    /\ rate_passed[rate_now] > ABSOLUTE_LIMIT_LOGIN
    /\ Cardinality(rate_limit_attempts) = 1

\* a change of another request is in the boxes of a store file: the box
\* that was created is there, the price that was set is 7
ChangePresent(change, boxes) ==
    \E i \in 1..Len(boxes) :
        /\ box_model(boxes[i]) = PyText(change.model)
        /\ change.kind = "price" =>
               NumEq(PricesOf(boxes[i])[change.field], PyFloat(7, 0))

\* import_prices has come to its end and has saved
ImportSaved ==
    /\ import_pc = "done"
    /\ import_data # NoLoaded
    /\ import_prices_answer(import_file, import_data.boxes).save

\* C22 as stated: when import_prices has saved, the store file holds every
\* change that other requests saved while import_prices waited for the
\* upload.
C22_NoLostUpdate ==
    ImportSaved =>
        \A change \in overlapped : ChangePresent(change, LoadFile(stores["1"]).boxes)

\* C22 witness: import_prices has saved after another request saved a
\* change between its load_store_yaml and its save.
C22_Witness == ImportSaved /\ overlapped # {}
\* ------------------------------------------------------------------------
\* Email verification codes
\* ------------------------------------------------------------------------
\* no code is accepted twice
SingleUse ==
    \A i, j \in 1..Len(accepted) : accepted[i].id = accepted[j].id => i = j

\* a code is accepted only before five minutes have passed since it was
\* created
AcceptedBeforeExpiry ==
    \A i \in 1..Len(accepted) :
        accepted[i].at < code_rows[accepted[i].id].created_at + code_minutes

\* C23: an email verification code is accepted at most once, and never
\* five minutes or more after it was created
C23_SingleUseAndExpiry == SingleUse /\ AcceptedBeforeExpiry

\* verify_code has just accepted a code created five minutes ago or more
C23_Witness ==
    /\ code_result.endpoint = "verify_code"
    /\ code_result.status_code = 200
    /\ code_rows[code_result.id].created_at + code_minutes <= code_now

\* the codes a verify-code request could use now
ValidCodes(store_id) ==
    {i \in 1..Len(code_rows) :
        /\ code_rows[i].store_id = store_id
        /\ ~code_rows[i].used
        /\ code_rows[i].expires_at > code_now}

\* C24: at most one email verification code of store 1 is valid at any
\* time
C24_OneValidCode == Cardinality(ValidCodes("1")) <= 1

\* a second code was just created for store 1, with the admin email in
\* another letter case, and the first one is still valid
C24_Witness ==
    /\ Len(code_rows) = 2
    /\ code_rows[1].email # code_rows[2].email
    /\ code_result.endpoint = "send_code"
    /\ ValidCodes("1") = {1, 2}

\* ------------------------------------------------------------------------
\* Itemized prices
\* ------------------------------------------------------------------------
\* the request names a price outside 0..10000, for any model
SomePriceRefused(request) ==
    \E m \in DOMAIN request.changes :
        \E i \in 1..Len(request.changes[m]) :
            ~PriceAccepted(request.changes[m][i].new_price)

\* the request names a price outside 0..10000 for a box of the store
SomeStorePriceRefused(request) ==
    \E m \in DOMAIN request.changes \cap request.models :
        \E i \in 1..Len(request.changes[m]) :
            ~PriceAccepted(request.changes[m][i].new_price)

\* the request names a price inside 0..10000 for a box of the store
SomeStorePriceAccepted(request) ==
    \E m \in DOMAIN request.changes \cap request.models :
        \E i \in 1..Len(request.changes[m]) :
            PriceAccepted(request.changes[m][i].new_price)

\* the step is a request of update_itemized_prices that passed the
\* checks of the session, the token and the store file
UpdateAdmitted ==
    /\ price_request'.op = "update_itemized_prices"
    /\ price_request'.admitted

\* C25 as stated: a request of update_itemized_prices with any price
\* outside 0..10000 is answered 400 and leaves the store file unchanged
C25_AnyPriceRefused ==
    [][UpdateAdmitted /\ SomePriceRefused(price_request')
       => response'.status_code = 400 /\ stores' = stores]_vars

\* C25: a request of update_itemized_prices with a price outside 0..10000
\* for a box of the store is answered 400, and a request answered 400
\* leaves the store file unchanged
C25_AllOrNothing ==
    [][/\ UpdateAdmitted /\ SomeStorePriceRefused(price_request')
          => response'.status_code = 400
       /\ price_request'.op = "update_itemized_prices" /\ response'.status_code = 400
          => stores' = stores]_vars

\* a request with a price inside the range for one box of the store and
\* a price outside it for another was answered 400
C25_Witness ==
    /\ price_request.op = "update_itemized_prices"
    /\ price_request.admitted
    /\ response.status_code = 400
    /\ \E a, b \in DOMAIN price_request.changes \cap price_request.models :
           /\ a # b
           /\ PriceAccepted(price_request.changes[a][1].new_price)
           /\ ~PriceAccepted(price_request.changes[b][1].new_price)

\* the itemized prices in the file of the store that are no number
\* between 0 and 10000
PricesOutOfRange(store_id) ==
    LET boxes == BoxesOf(store_id)
    IN {<<i, f>> \in (1..Len(boxes)) \X DOMAIN ZeroPrices :
           /\ "itemized-prices" \in DOMAIN boxes[i]
           /\ f \in DOMAIN boxes[i]["itemized-prices"].fields
           /\ ~PriceAccepted(boxes[i]["itemized-prices"].fields[f])}

\* C26: every itemized price in the file of store 1 is a number between
\* 0 and 10000
C26_PricesInRange == PricesOutOfRange("1") = {}

\* import_prices was answered 200 and the file of store 1 holds a price
\* outside the range
C26_Witness ==
    /\ price_request.op = "import_prices"
    /\ response.status_code = 200
    /\ PricesOutOfRange("1") # {}

\* ------------------------------------------------------------------------
\* Floorplans
\* ------------------------------------------------------------------------
\* the step is an upload_floorplan that a session sent and that was
\* answered 400
UploadRejected ==
    /\ floor_request'.op = "upload_floorplan"
    /\ response'.status_code = 400

\* C27: after an upload_floorplan answered 400 the floorplan files the
\* store had are still there and the file of the store is unchanged
C27_FailedUploadChangesNothing ==
    [][UploadRejected
       => /\ floor_request'.before \subseteq floorplan_files'
          /\ stores' = stores]_vars

\* an upload with an allowed type and size whose content is no image was
\* answered 400 for a store that had a floorplan
C27_Witness ==
    /\ floor_request.op = "upload_floorplan"
    /\ response.status_code = 400
    /\ floor_request.content_type \in allowed_types
    /\ floor_request.size <= FLOORPLAN_MAX_SIZE
    /\ ~floor_request.image
    /\ floor_request.before # {}

\* ------------------------------------------------------------------------
\* The demo store
\* ------------------------------------------------------------------------
\* the change is in the demo store
DemoChangePresent(change) ==
    CASE change = "box" -> \E i \in 1..Len(demo_store.boxes) : demo_store.boxes[i].model = "B"
      [] change = "price" ->
             \E i \in 1..Len(demo_store.boxes) :
                 demo_store.boxes[i].model = "T" /\ demo_store.boxes[i].price = 5
      [] change = "location" ->
             \E i \in 1..Len(demo_store.boxes) :
                 demo_store.boxes[i].model = "T" /\ demo_store.boxes[i].location = 1
      [] OTHER -> demo_rules = {"Custom"}

\* a demo login was answered less than an hour after the last reset
LoginWithinTheHour ==
    /\ demo_result.op = "demo_login"
    /\ demo_result.status_code = 200
    /\ demo_result.since # NoTimestamp
    /\ demo_result.since < demo_reset_minutes

\* C28: after a demo login less than an hour after the last reset the
\* changes made to the demo store since that reset are still present
C28_NoResetWithinTheHour ==
    LoginWithinTheHour => \A change \in demo_result.changes : DemoChangePresent(change)

\* a demo login less than an hour after the last reset, with changes
\* made since, has reset the store
C28_Witness ==
    /\ LoginWithinTheHour
    /\ demo_result.changes # {}
    /\ demo_reset_at = demo_now
    /\ demo_store = DemoReset(demo_now)

====
